-------------------------- MODULE PrimitivesProofs --------------------------
(***************************************************************************)
(* The calls in several stages implement StagedRegion, for any number of   *)
(* slots and of stages, any barriers, any clusters and any row of calls:   *)
(* a unit runs once and only when what it builds on is completed, and the  *)
(* call returns when nothing is left to run or left running.               *)
(*                                                                         *)
(* A step of a slot is one of six kinds, whatever the call: SlotStep.  It  *)
(* keeps what all calls have in common, CommonInv, and is a step of        *)
(* StagedRegion.  What remains to be shown of each kind of call is that    *)
(* its actions are such steps, above all that a unit begins only for the   *)
(* first time and behind its needs; that takes an invariant for each kind  *)
(* of call, ChainInv, PlexInv, ScanInv and LookInv.  Only inclusiveScan    *)
(* has steps of two kinds more, which StagedRegion does not see: Slips.    *)
(* And one thing parallelScan does breaks the promise: on clusters it goes *)
(* on folding behind a first pass that has thrown, FoldBehindThrow.        *)
(***************************************************************************)
EXTENDS Primitives, TLAPS, FiniteSetTheorems, SequenceTheorems,
        WellFoundedInduction

Current == Plan(call, layout)

(* Where a slot can be on its way, except in a body or behind a throw. *)
Resting == {"wait", "out", "stamp", "bail", "poll", "claim",
            "publish", "leave", "join", "last",
            "first", "gather", "member", "published", "total", "cross",
            "combine", "ready", "pass2", "second", "release", "drain",
            "taken", "aggregate", "prefix", "identity"}

TypeInv ==
  /\ job \subseteq Slots
  /\ pc \in [Slots -> Resting \union {"idle", "body", "flag"}]
  /\ at \in [Slots -> 0 .. Stages]
  /\ item \in [Slots -> Int \X Int]
  /\ done \in [Lines -> [Slots -> Nat]]
  /\ epoch \in [Lines -> Nat] /\ epochBase \in 0 .. WrapAt
  /\ cancelled \in BOOLEAN /\ stopped \in BOOLEAN

(* The call is one of those made on the pool. *)
PlanInv ==
  \E p \in Pools : /\ layout = p.clusters
                   /\ calls \in Seq(Range(p.calls))
                   /\ call # NoCall => call \in Range(p.calls)

RestInv ==
  call = NoCall =>
    /\ job = {} /\ began = {} /\ ended = {} /\ failed = {}
    /\ exc = None /\ ~cancelled /\ ~stopped
    /\ \A s \in Slots : pc[s] = "idle"

ShareInv ==
  call # NoCall => \A s \in Slots : /\ s \in job <=> pc[s] = "idle"
                                    /\ s \in job => at[s] = 0

Runs(s, u) == pc[s] = "body" /\ item[s] = u

(* A unit that has begun is over, or one slot runs it. *)
HistInv ==
  /\ ended \subseteq began /\ failed \subseteq began \ ended
  /\ call # NoCall => began \subseteq UnitsOf(Current)
  /\ \A s \in Slots : pc[s] = "body" => item[s] \in began \ (ended \union failed)
  /\ \A s, t \in Slots : pc[s] = "body" /\ pc[t] = "body" /\ item[s] = item[t] => s = t
  /\ \A u \in began : u \in ended \/ u \in failed \/ \E s \in Slots : Runs(s, u)

(* A throw is captured before its slot raises the flag. *)
ExcInv ==
  /\ exc \in failed \union {None}
  /\ exc = None => failed = {}
  /\ cancelled => failed # {} \/ stopped
  /\ \A s \in Slots : pc[s] = "flag" => item[s] \in failed
  /\ Kind # "lookback" => \A u \in failed : cancelled \/ \E s \in Slots : pc[s] = "flag" /\ item[s] = u

(* No line carries a stamp of a later call. *)
EpochInv ==
  /\ \A l \in Lines : /\ epoch[l] = 0 \/ \E p \in Plans : epoch[l] \in 0 .. WrapAt + Interval(p.of)
                      /\ \A s \in Slots : done[l][s] <= epoch[l]
  /\ call # NoCall /\ call.kind # "lookback" => epoch[Line] = epochBase + Interval(call)

CommonInv == TypeInv /\ PlanInv /\ RestInv /\ ShareInv /\ HistInv /\ ExcInv /\ EpochInv

-----------------------------------------------------------------------------
(***************************************************************************)
(* The steps of a slot, whatever the call.                                 *)
(***************************************************************************)
Begins(s) == \E n \in 0 .. Stages : Begin(s, n)

Moves(s) ==
  /\ pc[s] \in Resting
  /\ \E q \in Resting : Goto(s, q)
  /\ at' = [at EXCEPT ![s] = at'[s]] /\ at'[s] \in 0 .. Stages
  /\ done' = done \/ \E x \in 0 .. Interval(call) : Stamp(s, x)
  /\ cancelled' \in {cancelled, Cancelling}
  /\ UNCHANGED <<poolVars, item, exc, stopped, history>>

(* On a pool of several clusters the folds of a scan go on behind a first  *)
(* pass that has thrown: they do not wait for what they build on.          *)
FirstThrown == \E s \in Slots : <<Pass1, s>> \in failed

Excused(u) ==
  Kind = "scan" /\ Hierarchical /\ FirstThrown /\ u[1] \in {Fold, Cross, Combine}

Starts(s, u) ==
  /\ pc[s] \in Resting
  /\ u \in UnitsOf(Current) \ began
  /\ \/ Excused(u)
     \/ /\ NeedsOf(Current, u) \subseteq ended
        /\ AfterOf(Current, u) \subseteq ended \union failed
  /\ Run(s, u)
  /\ UNCHANGED <<poolVars, at, done, cancelled, exc, stopped>>

Ends(s) == \E q \in Resting : Complete(s, q)
Flags(s) == \E q \in Resting : Flag(s, q)

SlotStep(s) ==
  /\ call # NoCall
  /\ Begins(s) \/ Moves(s) \/ (\E u : Starts(s, u)) \/ Ends(s) \/ Throw(s) \/ Flags(s)

(* The pool and the call that are at hand. *)
LEMMA AtHand ==
  ASSUME PlanInv
  PROVE  /\ layout \in [Slots -> Slots] /\ layout[0] = 0
         /\ call # NoCall => IsCall(call) /\ Current \in Plans /\ Current # NoCall
<1>1. PICK p \in Pools : /\ layout = p.clusters
                         /\ calls \in Seq(Range(p.calls))
                         /\ call # NoCall => call \in Range(p.calls)
  BY DEF PlanInv
<1>2. layout \in [Slots -> Slots] /\ layout[0] = 0
  BY <1>1, StagedAssumption DEF StagedAssumption
<1>3. ASSUME call # NoCall
      PROVE  IsCall(call) /\ Current \in Plans /\ Current # NoCall
  <2>1. call \in Range(p.calls)
    BY <1>1, <1>3
  <2>2. PICK i \in DOMAIN p.calls : call = p.calls[i]
    BY <2>1 DEF Range
  <2>3. Current \in Plans
    BY <2>2, <1>1 DEF Plans, Current
  <2>4. IsCall(call)
    BY <2>1, PrimitivesAssumption DEF PrimitivesAssumption
  <2>5. NoCall \notin Plans
    BY PrimitivesAssumption DEF PrimitivesAssumption
  <2> QED
    BY <2>3, <2>4, <2>5
<1> QED
  BY <1>2, <1>3

(* A set of naturals has a least element. *)
LEMMA HasLeast ==
  ASSUME NEW S \in SUBSET Nat, S # {}
  PROVE  \E l \in S : \A t \in S : l <= t
<1>1. PICK l \in S : \A t \in S : ~(<<t, l>> \in OpToRel(<, Nat))
  BY NatLessThanWellFounded, WFMin
<1>2. \A t \in S : l <= t
  <2> SUFFICES ASSUME NEW t \in S, t < l PROVE FALSE
    OBVIOUS
  <2>1. <<t, l>> \in OpToRel(<, Nat)
    BY DEF OpToRel
  <2> QED
    BY <1>1, <2>1
<1> QED
  BY <1>2

(* The leader of a cluster is its least slot. *)
LEMMA LeadsIn ==
  ASSUME NEW y \in [Slots -> Slots], NEW s \in Slots
  PROVE  /\ Leads(y, s) \in Slots /\ y[Leads(y, s)] = y[s]
         /\ \A t \in Slots : y[t] = y[s] => Leads(y, s) <= t
<1>1. In(y, y[s]) \subseteq Nat /\ In(y, y[s]) # {}
  BY StagedAssumption DEF In, StagedAssumption
<1>2. PICK l \in In(y, y[s]) : \A t \in In(y, y[s]) : l <= t
  BY <1>1, HasLeast
<1>3. Leads(y, s) \in In(y, y[s]) /\ \A t \in In(y, y[s]) : Leads(y, s) <= t
  BY <1>2 DEF Leads
<1> QED
  BY <1>3 DEF In

(* Members of a cluster have one leader, and slot 0 is one. *)
LEMMA LeadsSame ==
  ASSUME NEW y, NEW s \in Slots, NEW t \in Slots, y[s] = y[t]
  PROVE  Leads(y, s) = Leads(y, t)
BY DEF Leads

LEMMA ZeroLeads ==
  ASSUME NEW y \in [Slots -> Slots]
  PROVE  Leads(y, 0) = 0
<1>1. 0 \in Slots /\ Slots \subseteq Nat
  BY StagedAssumption DEF StagedAssumption
<1>2. Leads(y, 0) \in Slots /\ Leads(y, 0) <= 0
  BY <1>1, LeadsIn
<1>3. \A n \in Nat : n <= 0 => n = 0
  OBVIOUS
<1> QED
  BY <1>1, <1>2, <1>3

(* No unit looks like no unit. *)
LEMMA UnitsShape ==
  ASSUME PlanInv, call # NoCall
  PROVE  \A u \in UnitsOf(Current) : u \in Int \X Int /\ u # None
<1>1. /\ IsCall(call) /\ 0 \in Slots /\ Slots \subseteq Int
      /\ layout \in [Slots -> Slots] /\ call.stages \in Nat
  BY AtHand, StagedAssumption DEF StagedAssumption, IsCall
<1>2. Current.of = call /\ Current.on = layout
  BY DEF Current, Plan
<1>3. ASSUME NEW a \in Int \ {0}, NEW b \in Int
      PROVE  <<a, b>> \in Int \X Int /\ <<a, b>> # None
  BY <1>3 DEF None
<1> SUFFICES ASSUME NEW u \in UnitsOf(Current)
             PROVE  \E a \in Int \ {0}, b \in Int : u = <<a, b>>
  BY <1>3
<1>4. CASE call.kind = "chain"
  <2>1. u \in ChainUnits(call)
    BY <1>2, <1>4 DEF UnitsOf
  <2>2. PICK i \in 1 .. call.stages : u \in {i} \X SharesOf(call, i)
    BY <2>1 DEF ChainUnits
  <2>3. SharesOf(call, i) \subseteq Int
    <3>1. (0 .. call.blocks - 1) \subseteq Int /\ {0} \subseteq Int
      BY <1>1, <1>4 DEF IsCall
    <3> QED
      BY <1>1, <3>1 DEF SharesOf
  <2>4. i \in Int \ {0}
    BY <1>1, <2>2
  <2> QED
    BY <2>2, <2>3, <2>4
<1>5. CASE call.kind = "plex"
  <2>1. u \in (1 .. call.stages) \X (Slots \union {Hook})
    BY <1>2, <1>5 DEF UnitsOf, PlexUnits
  <2>2. PICK i \in 1 .. call.stages, b \in Slots \union {Hook} : u = <<i, b>>
    BY <2>1
  <2>3. i \in Int \ {0} /\ b \in Int
    BY <1>1, <2>2 DEF Hook
  <2> QED
    BY <2>2, <2>3
<1>6. CASE call.kind = "scan"
  <2>1. u \in ScanUnits(layout)
    BY <1>2, <1>6 DEF UnitsOf
  <2>2. \A s \in Slots : Leads(layout, s) \in Slots
    BY LeadsIn, <1>1
  <2>3. PICK j \in {Pass1, Pass2, Fold, Combine, Cross}, b \in Slots : u = <<j, b>>
    <3> DEFINE L == {Leads(layout, s) : s \in Slots}
    <3>1. L \subseteq Slots
      BY <2>2
    <3>2. \/ u \in {Pass1, Pass2} \X Slots
          \/ u \in {Fold, Combine} \X L
          \/ u \in {<<Cross, 0>>, <<Fold, 0>>}
      BY <2>1 DEF ScanUnits
    <3> HIDE DEF L
    <3>3. CASE u \in {Pass1, Pass2} \X Slots
      BY <3>3
    <3>4. CASE u \in {Fold, Combine} \X L
      BY <3>1, <3>4
    <3>5. CASE u \in {<<Cross, 0>>, <<Fold, 0>>}
      BY <1>1, <3>5
    <3> QED
      BY <3>2, <3>3, <3>4, <3>5
  <2>4. j \in Int \ {0} /\ b \in Int
    BY <1>1, <2>3 DEF Pass1, Fold, Cross, Combine, Pass2
  <2> QED
    BY <2>3, <2>4
<1>7. CASE call.kind = "lookback"
  <2>1. u \in LookbackUnits(call)
    BY <1>2, <1>7 DEF UnitsOf
  <2>2. PICK j \in {LocalScan, Walk, Correction}, b \in 0 .. call.stages - 1 : u = <<j, b>>
    BY <2>1 DEF LookbackUnits
  <2>3. j \in Int \ {0} /\ b \in Int
    BY <1>1, <2>2 DEF LocalScan, Walk, Correction
  <2> QED
    BY <2>2, <2>3
<1> QED
  BY <1>1, <1>4, <1>5, <1>6, <1>7 DEF IsCall

(* What no step of a slot changes. *)
LEMMA SlotFrame ==
  ASSUME NEW s, SlotStep(s)
  PROVE  UNCHANGED <<layout, calls, call, epoch, epochBase, outcome, stopped>>
BY DEF SlotStep, Begins, Begin, Moves, Starts, Ends, Complete, Throw, Flags, Flag,
       poolVars

LEMMA SlotTypes ==
  ASSUME CommonInv, NEW s \in Slots, SlotStep(s)
  PROVE  TypeInv'
<1>1. UNCHANGED <<call, epoch, epochBase, stopped>> /\ Stages' = Stages
  BY SlotFrame DEF Stages
<1>2. WrapAt \in Nat /\ Slots \subseteq Nat
  BY StagedAssumption DEF StagedAssumption
<1>3. Line \in Lines /\ Interval(call) \in Nat
  BY AtHand DEF Line, Lines, Interval, CommonInv, SlotStep, IsCall
<1>4. CASE Begins(s)
  BY <1>1, <1>4 DEF Begins, Begin, Goto, CommonInv, TypeInv, Resting
<1>5. CASE Moves(s)
  <2>1. pc' \in [Slots -> Resting \union {"idle", "body", "flag"}]
    BY <1>5 DEF Moves, Goto, CommonInv, TypeInv
  <2>2. at' \in [Slots -> 0 .. Stages]
    BY <1>5 DEF Moves, CommonInv, TypeInv
  <2>3. done' \in [Lines -> [Slots -> Nat]]
    <3>1. CASE done' = done
      BY <3>1 DEF CommonInv, TypeInv
    <3>2. ASSUME NEW x \in 0 .. Interval(call), Stamp(s, x)
          PROVE  done' \in [Lines -> [Slots -> Nat]]
      <4>1. epochBase + x \in Nat
        BY <1>2, <1>3 DEF CommonInv, TypeInv
      <4> QED
        BY <1>3, <3>2, <4>1 DEF Stamp, CommonInv, TypeInv
    <3> QED
      BY <1>5, <3>1, <3>2 DEF Moves
  <2> QED
    BY <1>1, <1>5, <2>1, <2>2, <2>3 DEF Moves, Cancelling, poolVars, CommonInv, TypeInv
<1>6. ASSUME NEW u, Starts(s, u)
      PROVE  TypeInv'
  <2>1. u \in Int \X Int
    BY <1>6, UnitsShape DEF Starts, SlotStep, CommonInv
  <2> QED
    BY <1>1, <1>6, <2>1 DEF Starts, Run, Goto, poolVars, CommonInv, TypeInv
<1>7. CASE Ends(s)
  BY <1>1, <1>7 DEF Ends, Complete, Goto, poolVars, CommonInv, TypeInv
<1>8. CASE Throw(s)
  BY <1>1, <1>8 DEF Throw, Goto, poolVars, CommonInv, TypeInv
<1>9. CASE Flags(s)
  BY <1>1, <1>9 DEF Flags, Flag, Goto, poolVars, CommonInv, TypeInv
<1> QED
  BY <1>4, <1>5, <1>6, <1>7, <1>8, <1>9 DEF SlotStep

LEMMA SlotPlan ==
  ASSUME CommonInv, NEW s \in Slots, SlotStep(s)
  PROVE  PlanInv' /\ RestInv'
BY SlotFrame DEF CommonInv, PlanInv, RestInv, SlotStep

LEMMA SlotShares ==
  ASSUME CommonInv, NEW s \in Slots, SlotStep(s)
  PROVE  ShareInv'
<1>1. call' = call /\ call # NoCall
  BY SlotFrame DEF SlotStep
<1>2. \A t \in Slots : (t \in job <=> pc[t] = "idle") /\ (t \in job => at[t] = 0)
  BY <1>1 DEF CommonInv, ShareInv
<1>3. pc \in [Slots -> Resting \union {"idle", "body", "flag"}] /\ "idle" \notin Resting
  BY DEF CommonInv, TypeInv, Resting
<1>6. at \in [Slots -> 0 .. Stages]
  BY DEF CommonInv, TypeInv
<1>4. CASE Begins(s)
  <2>1. /\ job' = job \ {s} /\ pc'[s] = "wait"
        /\ \A t \in Slots \ {s} : pc'[t] = pc[t] /\ at'[t] = at[t]
    BY <1>3, <1>4, <1>6 DEF Begins, Begin, Goto
  <2> QED
    BY <1>1, <1>2, <2>1 DEF ShareInv
<1>5. CASE ~Begins(s)
  <2>1. job' = job
    BY <1>5 DEF SlotStep, Moves, Starts, Ends, Complete, Throw, Flags, Flag, poolVars
  <2>2. /\ pc[s] # "idle" /\ pc'[s] # "idle"
        /\ \A t \in Slots \ {s} : pc'[t] = pc[t] /\ at'[t] = at[t]
    BY <1>3, <1>5, <1>6 DEF SlotStep, Moves, Starts, Run, Ends, Complete, Throw, Flags, Flag, Goto, At
  <2> QED
    BY <1>1, <1>2, <2>1, <2>2 DEF ShareInv
<1> QED
  BY <1>4, <1>5

LEMMA SlotHistory ==
  ASSUME CommonInv, NEW s \in Slots, SlotStep(s)
  PROVE  HistInv'
<1>1. /\ call' = call /\ call # NoCall
      /\ UnitsOf(Current)' = UnitsOf(Current)
  BY SlotFrame DEF SlotStep, Current
<1>2. pc \in [Slots -> Resting \union {"idle", "body", "flag"}] /\ item \in [Slots -> Int \X Int]
  BY DEF CommonInv, TypeInv
<1>3. HistInv
  BY DEF CommonInv
<1>4. "body" \notin Resting /\ "body" # "flag"
  BY DEF Resting
<1>5. CASE Begins(s) \/ Moves(s) \/ Flags(s)
  <2>1. UNCHANGED <<item, began, ended, failed>>
    BY <1>5 DEF Begins, Begin, Moves, Flags, Flag, history
  <2>2. \A t \in Slots : pc'[t] = "body" <=> pc[t] = "body"
    <3>1. pc[s] # "body" /\ pc'[s] # "body"
      <4>1. CASE Begins(s)
        BY <4>1, <1>1, <1>2 DEF Begins, Begin, Goto, CommonInv, ShareInv
      <4>2. CASE Moves(s)
        BY <4>2, <1>2, <1>4 DEF Moves, Goto
      <4>3. CASE Flags(s)
        BY <4>3, <1>2, <1>4 DEF Flags, Flag, Goto, At
      <4> QED
        BY <1>5, <4>1, <4>2, <4>3
    <3>2. \A t \in Slots \ {s} : pc'[t] = pc[t]
      BY <1>2, <1>5 DEF Begins, Begin, Moves, Flags, Flag, Goto
    <3> QED
      BY <3>1, <3>2
  <2> QED
    BY <1>1, <1>3, <2>1, <2>2 DEF HistInv, Runs
<1>6. ASSUME NEW u, Starts(s, u)
      PROVE  HistInv'
  <2>1. /\ began' = began \union {u} /\ u \notin began /\ u \in UnitsOf(Current)
        /\ ended' = ended /\ failed' = failed /\ pc[s] # "body"
    BY <1>4, <1>6 DEF Starts, Run
  <2>2. /\ pc'[s] = "body" /\ item'[s] = u
        /\ \A t \in Slots \ {s} : pc'[t] = pc[t] /\ item'[t] = item[t]
    BY <1>2, <1>6 DEF Starts, Run, Goto
  <2>3. began' \subseteq UnitsOf(Current)'
    BY <1>1, <1>3, <2>1 DEF HistInv
  <2>4. ended' \subseteq began' /\ failed' \subseteq began' \ ended'
    BY <1>3, <2>1 DEF HistInv
  <2>5. \A t \in Slots : pc'[t] = "body" => item'[t] \in began' \ (ended' \union failed')
    BY <1>3, <2>1, <2>2 DEF HistInv
  <2>6. \A t, r \in Slots : pc'[t] = "body" /\ pc'[r] = "body" /\ item'[t] = item'[r] => t = r
    BY <1>3, <2>1, <2>2 DEF HistInv
  <2>7. \A v \in began' : v \in ended' \/ v \in failed' \/ \E t \in Slots : pc'[t] = "body" /\ item'[t] = v
    BY <1>3, <2>1, <2>2 DEF HistInv, Runs
  <2> QED
    BY <2>3, <2>4, <2>5, <2>6, <2>7 DEF HistInv, Runs
<1>7. CASE Ends(s) \/ Throw(s)
  <2>1. /\ pc[s] = "body" /\ pc'[s] # "body" /\ item' = item /\ began' = began
        /\ \A t \in Slots \ {s} : pc'[t] = pc[t]
    BY <1>2, <1>4, <1>7 DEF Ends, Complete, Throw, Goto, At
  <2>2. \/ ended' = ended \union {item[s]} /\ failed' = failed
        \/ failed' = failed \union {item[s]} /\ ended' = ended
    BY <1>7 DEF Ends, Complete, Throw
  <2>3. item[s] \in began \ (ended \union failed)
    BY <1>3, <2>1 DEF HistInv
  <2>4. ended' \subseteq began' /\ failed' \subseteq began' \ ended'
    BY <1>3, <2>1, <2>2, <2>3 DEF HistInv
  <2>5. \A t \in Slots : pc'[t] = "body" => item'[t] \in began' \ (ended' \union failed')
    BY <1>3, <2>1, <2>2 DEF HistInv
  <2>6. \A t, r \in Slots : pc'[t] = "body" /\ pc'[r] = "body" /\ item'[t] = item'[r] => t = r
    BY <1>3, <2>1 DEF HistInv
  <2>7. \A v \in began' : v \in ended' \/ v \in failed' \/ \E t \in Slots : pc'[t] = "body" /\ item'[t] = v
    BY <1>3, <2>1, <2>2 DEF HistInv, Runs
  <2> QED
    BY <1>1, <1>3, <2>1, <2>4, <2>5, <2>6, <2>7 DEF HistInv, Runs
<1> QED
  BY <1>5, <1>6, <1>7 DEF SlotStep

LEMMA SlotThrows ==
  ASSUME CommonInv, NEW s \in Slots, SlotStep(s)
  PROVE  ExcInv'
<1>1. stopped' = stopped /\ call # NoCall /\ Kind' = Kind
  BY SlotFrame DEF SlotStep, Kind
<1>2. /\ pc \in [Slots -> Resting \union {"idle", "body", "flag"}]
      /\ item \in [Slots -> Int \X Int]
      /\ cancelled \in BOOLEAN /\ stopped \in BOOLEAN
  BY DEF CommonInv, TypeInv
<1>3. ExcInv
  BY DEF CommonInv
<1>4. "flag" \notin Resting /\ "body" # "flag"
  BY DEF Resting
<1>5. CASE Begins(s) \/ Moves(s) \/ Ends(s) \/ (\E u : Starts(s, u))
  <2>1. failed' = failed /\ exc' = exc /\ cancelled' \in {cancelled, cancelled \/ stopped}
    BY <1>5 DEF Begins, Begin, Moves, Ends, Complete, Starts, Run, history, Cancelling
  <2>2. \A t \in Slots : /\ pc'[t] = "flag" <=> pc[t] = "flag"
                         /\ pc[t] = "flag" => item'[t] = item[t]
    <3>1. pc[s] # "flag" /\ pc'[s] # "flag"
      <4>1. CASE Begins(s)
        BY <4>1, <1>1, <1>2 DEF Begins, Begin, Goto, CommonInv, ShareInv
      <4>2. CASE Moves(s)
        BY <4>2, <1>2, <1>4 DEF Moves, Goto
      <4>3. CASE Ends(s)
        BY <4>3, <1>2, <1>4 DEF Ends, Complete, Goto, At
      <4>4. CASE \E u : Starts(s, u)
        BY <4>4, <1>2, <1>4 DEF Starts, Run, Goto
      <4> QED
        BY <1>5, <4>1, <4>2, <4>3, <4>4
    <3>2. \A t \in Slots \ {s} : pc'[t] = pc[t] /\ item'[t] = item[t]
      BY <1>2, <1>5 DEF Begins, Begin, Moves, Ends, Complete, Starts, Run, Goto
    <3> QED
      BY <3>1, <3>2
  <2>3. cancelled' => failed' # {} \/ stopped'
    BY <1>1, <1>2, <1>3, <2>1 DEF ExcInv
  <2>4. Kind # "lookback" => \A u \in failed' : cancelled' \/ \E t \in Slots : pc'[t] = "flag" /\ item'[t] = u
    BY <1>2, <1>3, <2>1, <2>2 DEF ExcInv
  <2>5. \A t \in Slots : pc'[t] = "flag" => item'[t] \in failed'
    BY <1>3, <2>1, <2>2 DEF ExcInv
  <2>6. exc' \in failed' \union {None} /\ (exc' = None => failed' = {})
    BY <1>3, <2>1 DEF ExcInv, None
  <2> QED
    BY <1>1, <2>3, <2>4, <2>5, <2>6 DEF ExcInv
<1>6. CASE Throw(s)
  <2>1. /\ pc[s] = "body" /\ pc'[s] = "flag" /\ item' = item /\ cancelled' = cancelled
        /\ \A t \in Slots \ {s} : pc'[t] = pc[t]
        /\ failed' = failed \union {item[s]}
        /\ exc' = IF exc = None THEN item[s] ELSE exc
    BY <1>2, <1>6 DEF Throw, Goto, At
  <2>2. item[s] # None
    BY <1>1, <2>1, UnitsShape DEF CommonInv, HistInv
  <2>3. /\ exc' \in failed' \union {None}
        /\ exc' = None => failed' = {}
        /\ cancelled' => failed' # {} \/ stopped'
    BY <1>1, <1>3, <2>1, <2>2 DEF ExcInv
  <2>4. \A t \in Slots : pc'[t] = "flag" => item'[t] \in failed'
    BY <1>3, <2>1 DEF ExcInv
  <2>5. Kind # "lookback" => \A u \in failed' : cancelled' \/ \E t \in Slots : pc'[t] = "flag" /\ item'[t] = u
    BY <1>3, <2>1, <1>4 DEF ExcInv
  <2> QED
    BY <1>1, <2>3, <2>4, <2>5 DEF ExcInv
<1>7. CASE Flags(s)
  <2>1. /\ pc[s] = "flag" /\ pc'[s] # "flag" /\ item' = item /\ cancelled' = TRUE
        /\ \A t \in Slots \ {s} : pc'[t] = pc[t]
        /\ failed' = failed /\ exc' = exc
    BY <1>2, <1>4, <1>7 DEF Flags, Flag, Goto, At, history
  <2> QED
    BY <1>1, <1>3, <2>1 DEF ExcInv
<1> QED
  BY <1>5, <1>6, <1>7 DEF SlotStep

LEMMA SlotEpochs ==
  ASSUME CommonInv, NEW s \in Slots, SlotStep(s), Kind # "lookback" \/ done' = done
  PROVE  EpochInv'
<1>1. UNCHANGED <<call, layout, epoch, epochBase>> /\ Line' = Line /\ call # NoCall
  <2>1. UNCHANGED <<call, layout, epoch, epochBase>>
    BY SlotFrame
  <2>2. call # NoCall
    BY DEF SlotStep
  <2> QED
    BY <2>1, <2>2 DEF Line, Kind
<1>2. /\ done \in [Lines -> [Slots -> Nat]] /\ epochBase \in Nat /\ epoch \in [Lines -> Nat]
      /\ Line \in Lines /\ Interval(call) \in Nat
  <2>1. IsCall(call)
    BY <1>1, AtHand DEF CommonInv
  <2> QED
    BY <2>1, StagedAssumption, SMTT(30) DEF CommonInv, TypeInv, Line, Lines, Interval, IsCall, StagedAssumption
<1>3. \A l \in Lines : \A t \in Slots : done'[l][t] <= epoch[l]
  <2>1. CASE done' = done
    BY <2>1 DEF CommonInv, EpochInv
  <2>2. ASSUME NEW x \in 0 .. Interval(call), Stamp(s, x), Kind # "lookback"
        PROVE  \A l \in Lines : \A t \in Slots : done'[l][t] <= epoch[l]
    <3>1. call.kind # "lookback"
      BY <1>1, <2>2 DEF Kind
    <3>2. epochBase + x <= epoch[Line]
      BY <1>1, <1>2, <3>1 DEF CommonInv, EpochInv
    <3>3. \A l \in Lines : \A t \in Slots :
            done'[l][t] = IF l = Line /\ t = s THEN epochBase + x ELSE done[l][t]
      BY <1>2, <2>2 DEF Stamp
    <3> QED
      BY <1>2, <3>2, <3>3 DEF CommonInv, EpochInv
  <2> QED
    BY <2>1, <2>2 DEF SlotStep, Begins, Begin, Moves, Starts, Ends, Complete, Throw, Flags, Flag
<1> QED
  BY <1>1, <1>3 DEF CommonInv, EpochInv

LEMMA SlotKeeps ==
  ASSUME CommonInv, NEW s \in Slots, SlotStep(s),
         Kind # "lookback" \/ done' = done
  PROVE  CommonInv'
BY SlotTypes, SlotPlan, SlotShares, SlotHistory, SlotThrows, SlotEpochs DEF CommonInv

(* Such a fold, as the promise of the call would see it. *)
FoldBehindThrow ==
  /\ call # NoCall
  /\ \E u \in UnitsOf(Current) \ began : Excused(u) /\ began' = began \union {u}
  /\ UNCHANGED <<call, layout, ended, failed, stopped, outcome>>

(* A step of a slot is one of the call's promise, or none that it sees,    *)
(* or such a fold.                                                         *)
LEMMA SlotPromise ==
  ASSUME CommonInv, NEW s \in Slots, SlotStep(s)
  PROVE  [Region!Next \/ FoldBehindThrow]_(Region!vars)
<1>1. /\ UNCHANGED <<layout, call, stopped, outcome>> /\ call # NoCall
      /\ Current' = Current /\ Current # NoCall
  BY SlotFrame, AtHand DEF SlotStep, Current, CommonInv
<1>2. CASE Begins(s) \/ Moves(s) \/ Flags(s)
  <2>1. UNCHANGED <<began, ended, failed>>
    BY <1>2 DEF Begins, Begin, Moves, Flags, Flag, history
  <2> QED
    BY <1>1, <2>1 DEF Region!vars, Current
<1>3. ASSUME NEW u, Starts(s, u)
      PROVE  Region!Begin \/ FoldBehindThrow
  <2>1. /\ u \in UnitsOf(Current) \ began /\ began' = began \union {u}
        /\ UNCHANGED <<ended, failed>>
    BY <1>3 DEF Starts, Run
  <2>2. CASE Excused(u)
    BY <1>1, <2>1, <2>2 DEF FoldBehindThrow
  <2>3. CASE ~Excused(u)
    <3>1. NeedsOf(Current, u) \subseteq ended /\ AfterOf(Current, u) \subseteq ended \union failed
      BY <1>3, <2>3 DEF Starts
    <3> QED
      BY <1>1, <2>1, <3>1 DEF Region!Begin, Current
  <2> QED
    BY <2>2, <2>3
<1>4. ASSUME Ends(s) \/ Throw(s)
      PROVE  Region!End \/ Region!Fail
  <2>1. item[s] \in began \ (ended \union failed) /\ began' = began
    BY <1>4 DEF Ends, Complete, Throw, At, CommonInv, HistInv
  <2>2. \/ ended' = ended \union {item[s]} /\ failed' = failed
        \/ failed' = failed \union {item[s]} /\ ended' = ended
    BY <1>4 DEF Ends, Complete, Throw
  <2> QED
    BY <1>1, <2>1, <2>2 DEF Region!End, Region!Fail, Region!Running, Current
<1> QED
  BY <1>2, <1>3, <1>4 DEF SlotStep, Region!Next

(* What a step leaves to the other slots. *)
LEMMA OthersKeep ==
  ASSUME CommonInv, NEW s \in Slots, SlotStep(s)
  PROVE  /\ call' = call /\ Kind' = Kind /\ Line' = Line /\ layout' = layout
         /\ epochBase' = epochBase
         /\ (cancelled => cancelled')
         /\ began \subseteq began' /\ ended \subseteq ended' /\ failed \subseteq failed'
         /\ \A t \in Slots \ {s} :
              /\ pc'[t] = pc[t] /\ at'[t] = at[t] /\ item'[t] = item[t]
              /\ t \in job' <=> t \in job
              /\ \A j : Reached(t, j)' <=> Reached(t, j)
<1>1. call' = call /\ epochBase' = epochBase /\ layout' = layout
  BY SlotFrame
<1>2. Kind' = Kind /\ Line' = Line /\ Line \in Lines /\ call # NoCall
  BY <1>1 DEF Kind, Line, Lines, SlotStep
<1>3. cancelled => cancelled'
  <2>1. cancelled' = cancelled \/ cancelled' = (cancelled \/ stopped) \/ cancelled' = TRUE
    BY DEF SlotStep, Begins, Begin, Moves, Starts, Ends, Complete, Throw, Flags, Flag, Cancelling
  <2> QED
    BY <2>1, Zenon
<1>4. began \subseteq began' /\ ended \subseteq ended' /\ failed \subseteq failed'
  BY DEF SlotStep, Begins, Begin, Moves, Starts, Run, Ends, Complete, Throw, Flags, Flag, history
<1>5. /\ pc \in [Slots -> Resting \union {"idle", "body", "flag"}]
      /\ at \in [Slots -> 0 .. Stages] /\ item \in [Slots -> Int \X Int]
      /\ done \in [Lines -> [Slots -> Nat]]
  BY DEF CommonInv, TypeInv
<1>6. \A t \in Slots \ {s} :
        /\ pc'[t] = pc[t] /\ at'[t] = at[t] /\ item'[t] = item[t]
        /\ t \in job' <=> t \in job
  BY <1>5 DEF SlotStep, Begins, Begin, Moves, Starts, Run, Ends, Complete, Throw, Flags, Flag,
              Goto, poolVars
<1>7. \A t \in Slots \ {s} : done'[Line][t] = done[Line][t]
  <2>1. CASE done' = done
    BY <2>1
  <2>2. ASSUME NEW x, Stamp(s, x)
        PROVE  \A t \in Slots \ {s} : done'[Line][t] = done[Line][t]
    BY <1>2, <1>5, <2>2 DEF Stamp
  <2> QED
    BY <2>1, <2>2 DEF SlotStep, Begins, Begin, Moves, Starts, Ends, Complete, Throw, Flags, Flag
<1>8. \A t \in Slots \ {s} : \A j : Reached(t, j)' <=> Reached(t, j)
  BY <1>1, <1>2, <1>7 DEF Reached
<1> QED
  BY <1>1, <1>2, <1>3, <1>4, <1>6, <1>8

-----------------------------------------------------------------------------
(***************************************************************************)
(* Between the calls.                                                      *)
(***************************************************************************)
(* The call that is opened is the next of the row. *)
LEMMA NextCall ==
  ASSUME PlanInv, calls # <<>>, Open(Head(calls))
  PROVE  /\ PlanInv' /\ call' # NoCall /\ call' = Head(calls)
         /\ IsCall(call') /\ Plan(call', layout) \in Plans /\ layout' = layout
<1>1. PICK p \in Pools : layout = p.clusters /\ calls \in Seq(Range(p.calls))
  BY DEF PlanInv
<1>2. Head(calls) \in Range(p.calls) /\ Tail(calls) \in Seq(Range(p.calls))
  BY <1>1
<1>3. /\ call' = Head(calls) /\ calls' = Tail(calls) /\ layout' = layout
  BY DEF Open
<1>4. PlanInv'
  BY <1>1, <1>2, <1>3 DEF PlanInv
<1>5. call' # NoCall
  BY <1>2, <1>3, PrimitivesAssumption DEF PrimitivesAssumption
<1> QED
  <2>1. IsCall(call')
    BY <1>2, <1>3, PrimitivesAssumption DEF PrimitivesAssumption
  <2>2. PICK i \in DOMAIN p.calls : call' = p.calls[i]
    BY <1>2, <1>3 DEF Range
  <2>3. Plan(call', layout) \in Plans
    BY <2>2, <1>1 DEF Plans
  <2> QED
    BY <1>2, <1>3, <1>4, <1>5, <2>1, <2>3

(* A call's interval lies behind all stamps of the calls before. *)
LEMMA NewInterval ==
  ASSUME CommonInv, NEW c, c.kind # "lookback", IsCall(c), Reserve(c),
         call' = c, c # NoCall, Plan(c, layout) \in Plans
  PROVE  /\ EpochInv' /\ epochBase' \in 0 .. WrapAt
         /\ epoch' \in [Lines -> Nat] /\ done' \in [Lines -> [Slots -> Nat]]
         /\ \A s \in Slots : \A j \in Nat \ {0} : ~Reached(s, j)'
<1> DEFINE l == IF c.kind = "plex" THEN "plex" ELSE "chain"
<1>1. l \in Lines /\ Interval(c) \in Nat /\ WrapAt \in Nat /\ Line' = l
  BY StagedAssumption DEF Lines, Interval, IsCall, StagedAssumption, Line, Kind
<1>2. /\ epoch \in [Lines -> Nat] /\ done \in [Lines -> [Slots -> Nat]]
      /\ \A m \in Lines : \A s \in Slots : done[m][s] <= epoch[m]
  BY DEF CommonInv, TypeInv, EpochInv
<1>3. Plan(c, layout).of = c
  BY DEF Plan
<1>4. CASE epoch[l] > WrapAt
  <2>1. /\ done' = [done EXCEPT ![l] = [s \in Slots |-> 0]] /\ epochBase' = 0
        /\ epoch' = [epoch EXCEPT ![l] = Interval(c)]
    BY <1>4 DEF Reserve, Reset
  <2>2. epochBase' \in 0 .. WrapAt /\ epoch' \in [Lines -> Nat] /\ done' \in [Lines -> [Slots -> Nat]]
    BY <1>1, <1>2, <2>1
  <2>3. \A s \in Slots : done'[l][s] = 0
    BY <1>1, <1>2, <2>1
  <2>4. \A m \in Lines : \A s \in Slots : done'[m][s] <= epoch'[m]
    BY <1>1, <1>2, <2>1, <2>3
  <2>5. epoch'[l] = Interval(c) /\ \A m \in Lines \ {l} : epoch'[m] = epoch[m]
    BY <1>1, <1>2, <2>1
  <2>6. \A m \in Lines : epoch'[m] = 0 \/ \E p \in Plans : epoch'[m] \in 0 .. WrapAt + Interval(p.of)
    <3>1. Interval(c) \in 0 .. WrapAt + Interval(c)
      BY <1>1
    <3> QED
      BY <1>3, <2>5, <3>1 DEF CommonInv, EpochInv
  <2>7. EpochInv'
    BY <1>1, <2>1, <2>4, <2>5, <2>6 DEF EpochInv
  <2>8. \A s \in Slots : \A j \in Nat \ {0} : ~Reached(s, j)'
    BY <1>1, <2>1, <2>3 DEF Reached
  <2> QED
    BY <2>2, <2>7, <2>8
<1>5. CASE ~(epoch[l] > WrapAt)
  <2>1. done' = done /\ epochBase' = epoch[l] /\ epoch' = [epoch EXCEPT ![l] = @ + Interval(c)]
    BY <1>5 DEF Reserve, Fresh
  <2>2. epochBase' \in 0 .. WrapAt /\ epoch' \in [Lines -> Nat] /\ done' \in [Lines -> [Slots -> Nat]]
    BY <1>1, <1>2, <1>5, <2>1
  <2>3. epoch'[l] = epoch[l] + Interval(c) /\ \A m \in Lines \ {l} : epoch'[m] = epoch[m]
    BY <1>1, <1>2, <2>1
  <2>4. \A m \in Lines : \A s \in Slots : done'[m][s] <= epoch'[m]
    BY <1>1, <1>2, <2>1, <2>2, <2>3
  <2>5. \A m \in Lines : epoch'[m] = 0 \/ \E p \in Plans : epoch'[m] \in 0 .. WrapAt + Interval(p.of)
    <3>1. epoch'[l] \in 0 .. WrapAt + Interval(c)
      BY <1>1, <1>2, <1>5, <2>3
    <3> QED
      BY <1>3, <2>3, <3>1 DEF CommonInv, EpochInv
  <2>6. EpochInv'
    BY <1>1, <2>1, <2>3, <2>4, <2>5 DEF EpochInv
  <2>7. \A s \in Slots : \A j \in Nat \ {0} : ~Reached(s, j)'
    BY <1>1, <1>2, <2>1 DEF Reached
  <2> QED
    BY <2>2, <2>6, <2>7
<1> QED
  BY <1>4, <1>5

LEMMA OpenKeeps ==
  ASSUME CommonInv, OpenCall
  PROVE  /\ CommonInv' /\ Region!Open
         /\ IsCall(call') /\ call' # NoCall
         /\ began' = {} /\ ended' = {} /\ failed' = {} /\ ~cancelled'
         /\ job' = Slots /\ \A s \in Slots : pc'[s] = "idle" /\ at'[s] = 0
         /\ Kind' # "lookback" => \A s \in Slots : \A j \in Nat \ {0} : ~Reached(s, j)'
<1> DEFINE c == Head(calls)
<1>1. calls # <<>> /\ Open(c)
  BY DEF OpenCall
<1>2. /\ PlanInv' /\ call' # NoCall /\ call' = c
      /\ IsCall(c) /\ Plan(c, layout) \in Plans /\ layout' = layout
  BY <1>1, NextCall DEF CommonInv
<1>3. /\ call = NoCall /\ job' = Slots /\ Reserve(c)
      /\ UNCHANGED <<layout, pc, at, item, cancelled, exc, stopped, began, ended, failed, outcome>>
  BY <1>1 DEF Open, history
<1>4. /\ EpochInv' /\ epochBase' \in 0 .. WrapAt
      /\ epoch' \in [Lines -> Nat] /\ done' \in [Lines -> [Slots -> Nat]]
      /\ Kind' # "lookback" => \A s \in Slots : \A j \in Nat \ {0} : ~Reached(s, j)'
  <2>1. CASE c.kind # "lookback"
    BY <1>2, <1>3, <2>1, NewInterval
  <2>2. CASE c.kind = "lookback"
    <3>1. epochBase' = 0 /\ epoch' = epoch /\ done' = done /\ WrapAt \in Nat
      BY <1>3, <2>2, StagedAssumption DEF Reserve, StagedAssumption
    <3>2. EpochInv'
      BY <1>2, <2>2, <3>1 DEF CommonInv, EpochInv
    <3> QED
      BY <1>2, <2>2, <3>1, <3>2 DEF CommonInv, TypeInv, Kind
  <2> QED
    BY <2>1, <2>2
<1>5. /\ began' = {} /\ ended' = {} /\ failed' = {} /\ exc' = None
      /\ ~cancelled' /\ ~stopped' /\ \A s \in Slots : pc'[s] = "idle"
  BY <1>3 DEF CommonInv, RestInv
<1>6. \A s \in Slots : at'[s] = 0
  BY <1>3 DEF CommonInv, TypeInv, Stages
<1>7. TypeInv'
  <2>1. at' \in [Slots -> 0 .. Stages'] /\ Stages' \in Nat
    BY <1>2, <1>3, <1>6 DEF CommonInv, TypeInv, Stages, IsCall
  <2> QED
    BY <1>3, <1>4, <2>1 DEF CommonInv, TypeInv
<1>8. RestInv' /\ ShareInv' /\ HistInv'
  BY <1>2, <1>3, <1>5, <1>6 DEF RestInv, ShareInv, HistInv
<1>9. ExcInv'
  BY <1>5 DEF ExcInv
<1>10. Region!Open
  BY <1>2, <1>3, PrimitivesAssumption DEF Region!Open, PrimitivesAssumption
<1> QED
  BY <1>2, <1>3, <1>4, <1>5, <1>6, <1>7, <1>8, <1>9, <1>10 DEF CommonInv

LEMMA ReturnKeeps ==
  ASSUME CommonInv, ReturnCall
  PROVE  /\ CommonInv' /\ call' = NoCall
<1>1. /\ call' = NoCall /\ job = {} /\ job' = {} /\ epochBase' = 0
      /\ pc' = [s \in Slots |-> "idle"] /\ at' = [s \in Slots |-> 0]
      /\ item' = [s \in Slots |-> None]
      /\ cancelled' = FALSE /\ exc' = None /\ stopped' = FALSE
      /\ began' = {} /\ ended' = {} /\ failed' = {}
      /\ UNCHANGED <<layout, calls, epoch, done>>
  BY DEF ReturnCall, Return, Through
<1>2. TypeInv'
  <2>1. Stages' = 0 /\ WrapAt \in Nat
    BY <1>1, StagedAssumption DEF Stages, StagedAssumption
  <2>2. None \in Int \X Int
    BY DEF None
  <2>3. at' \in [Slots -> 0 .. Stages'] /\ item' \in [Slots -> Int \X Int] /\ epochBase' \in 0 .. WrapAt
    BY <1>1, <2>1, <2>2
  <2> QED
    BY <1>1, <2>3 DEF CommonInv, TypeInv
<1> QED
  BY <1>1, <1>2 DEF CommonInv, PlanInv, RestInv, ShareInv, HistInv, ExcInv, EpochInv

LEMMA StopKeeps ==
  ASSUME CommonInv, StopToken
  PROVE  CommonInv' /\ Region!Stop
<1>1. /\ stopped' = TRUE /\ call # NoCall /\ call' = call /\ layout' = layout
      /\ Current' = Current /\ Current # NoCall
      /\ UNCHANGED <<poolVars, pc, at, item, done, cancelled, exc, history>>
  BY AtHand DEF StopToken, Stop, poolVars, Current, CommonInv
<1>2. Region!Stop
  BY <1>1 DEF Region!Stop, poolVars, history, Current
<1>3. TypeInv' /\ PlanInv' /\ RestInv' /\ ShareInv'
  BY <1>1 DEF CommonInv, TypeInv, PlanInv, RestInv, ShareInv, poolVars, Stages, history
<1>4. HistInv' /\ ExcInv'
  BY <1>1 DEF CommonInv, HistInv, ExcInv, history, Runs, Kind
<1>5. EpochInv'
  BY <1>1 DEF CommonInv, EpochInv, poolVars, Line, Kind
<1> QED
  BY <1>2, <1>3, <1>4, <1>5 DEF CommonInv

-----------------------------------------------------------------------------
(***************************************************************************)
(* parallelChain.  A slot enters a stage behind its barrier, is over with  *)
(* it when its own work is done, and passes it with the stamp.  As long as *)
(* nobody gives up, a stamp says what it seems to: that its slot is past   *)
(* the stage.                                                              *)
(***************************************************************************)
Entered(s, i) == at[s] > i \/ (at[s] = i /\ pc[s] \notin {"idle", "wait"})
Over(s, i)    == at[s] > i \/ (at[s] = i /\ pc[s] \in {"stamp", "out"})
Passed(s, i)  == at[s] > i \/ (at[s] = i /\ pc[s] = "out")

ChainPlaces ==
  \A s \in Slots \ job :
    /\ at[s] \in 1 .. call.stages
    /\ pc[s] \in {"wait", "poll", "claim", "body", "flag", "bail", "stamp", "out"}
    /\ pc[s] \in {"poll", "claim"} => Dynamic
    /\ pc[s] = "bail" => cancelled
    /\ pc[s] = "out" /\ ~cancelled => at[s] = call.stages
    /\ pc[s] \in {"body", "flag"} => /\ item[s][1] = at[s]
                                     /\ ~Dynamic => item[s] = <<at[s], s>>

(* The static engine: a slot's chunk of a stage. *)
BeganStatic ==
  \A u \in began : /\ u[1] \in 1 .. call.stages /\ u[2] \in Slots
                   /\ u = <<u[1], u[2]>>
                   /\ RunsBody(u[2], u[1]) /\ Entered(u[2], u[1])

(* The dynamic engine: the blocks that are claimed, and what a slot that   *)
(* claims them builds on.                                                  *)
StageNeeds(i) ==
  {v \in ChainUnits(call) :
     /\ v[1] < i
     /\ \/ \E j \in v[1] .. i - 1 : call.barriers[j] = "all"
        \/ v[1] > 1 /\ call.barriers[v[1] - 1] = "serial"}

BeganDynamic ==
  /\ claimed \in [1 .. call.stages -> Nat]
  /\ \A u \in began : /\ u[1] \in 1 .. call.stages /\ u[2] \in 0 .. call.blocks - 1
                      /\ u = <<u[1], u[2]>> /\ u[2] < claimed[u[1]]
  /\ \A i \in 1 .. call.stages : \A b \in 0 .. call.blocks - 1 :
       b < claimed[i] => <<i, b>> \in began
  /\ \A s \in Slots : pc[s] \in {"poll", "claim", "body", "flag"} =>
       StageNeeds(at[s]) \subseteq ended

ChainCourse ==
  ~cancelled =>
    /\ ~Dynamic => \A s \in Slots : \A i \in 1 .. call.stages :
                     Over(s, i) /\ RunsBody(s, i) => <<i, s>> \in ended
    /\ Dynamic => \A s \in Slots : \A i \in 1 .. call.stages :
                     Over(s, i) => claimed[i] >= call.blocks
    /\ \A s \in Slots : \A j \in 1 .. call.stages : Reached(s, j) => Passed(s, j)
    /\ \A s \in Slots : \A j \in 1 .. call.stages - 1 :
         call.barriers[j] = "all" /\ Entered(s, j + 1) => \A t \in Slots : Passed(t, j)
    /\ \A s \in Slots \ {0} : \A k \in 2 .. call.stages :
         Behind(k) = "serial" /\ Entered(s, k) => Passed(0, k)
    /\ Dynamic => \A s \in Slots : pc[s] \in {"body", "flag"} /\ Behind(at[s]) = "serial" => s = 0

ChainInv ==
  Kind = "chain" => /\ ChainPlaces /\ ChainCourse
                    /\ ~Dynamic => BeganStatic
                    /\ Dynamic => BeganDynamic

(* What the proofs about a chain take from CommonInv. *)
LEMMA InChain ==
  ASSUME CommonInv, Kind = "chain"
  PROVE  /\ call # NoCall /\ call.kind = "chain" /\ Line = "chain"
         /\ call.stages \in Nat \ {0} /\ call.blocks \in Nat
         /\ call.barriers \in [1 .. call.stages -> {"none", "all", "serial"}]
         /\ Interval(call) = call.stages + 1 /\ Stages = call.stages
         /\ UnitsOf(Current) = ChainUnits(call)
         /\ \A u : /\ NeedsOf(Current, u) = ChainNeeds(call, u)
                   /\ AfterOf(Current, u) = {}
         /\ pc \in [Slots -> Resting \union {"idle", "body", "flag"}]
         /\ at \in [Slots -> Nat] /\ item \in [Slots -> Int \X Int]
         /\ done \in [Lines -> [Slots -> Nat]] /\ epochBase \in Nat
         /\ "chain" \in Lines
         /\ 0 \in Slots /\ Slots \subseteq Nat
         /\ cancelled \in BOOLEAN /\ stopped \in BOOLEAN
         /\ \A s \in Slots : s \in job <=> pc[s] = "idle"
         /\ \A s \in Slots : pc[s] = "idle" => at[s] = 0
<1>1. call # NoCall /\ call.kind = "chain" /\ IsCall(call)
  BY AtHand DEF Kind, CommonInv
<1>2. Current.of = call
  BY DEF Current, Plan
<1>3. Stages = call.stages /\ call.stages \in Nat
  BY <1>1 DEF Stages, IsCall
<1>4. at \in [Slots -> Nat] /\ epochBase \in Nat
  BY <1>3, StagedAssumption DEF CommonInv, TypeInv, StagedAssumption
<1> QED
  BY <1>1, <1>2, <1>3, <1>4, StagedAssumption
  DEF Line, Kind, IsCall, Interval, UnitsOf, NeedsOf, AfterOf, CommonInv, TypeInv, Lines,
      ShareInv, StagedAssumption

LEMMA ChainUnit ==
  ASSUME NEW c, c.stages \in Nat, c.blocks \in Nat, NEW u
  PROVE  u \in ChainUnits(c) <=> /\ u = <<u[1], u[2]>>
                                 /\ u[1] \in 1 .. c.stages /\ u[2] \in SharesOf(c, u[1])
<1>1. u \in ChainUnits(c) <=> \E i \in 1 .. c.stages : u \in {i} \X SharesOf(c, i)
  BY DEF ChainUnits
<1> QED
  BY <1>1

(* Whoever may enter a stage finds those past it that the barrier names. *)
LEMMA Crossing ==
  ASSUME CommonInv, Kind = "chain", ChainPlaces, ChainCourse, ~cancelled, NEW s \in Slots,
         At(s, "wait"), MayEnter(s, at[s])
  PROVE  /\ at[s] \in 1 .. call.stages
         /\ Behind(at[s]) = "all" => /\ at[s] > 1
                                     /\ \A t \in Slots : Passed(t, at[s] - 1)
         /\ Behind(at[s]) = "serial" /\ s # 0 => Passed(0, at[s])
<1>1. s \notin job /\ at[s] \in 1 .. call.stages
  BY InChain DEF At, ChainPlaces
<1>2. Behind(at[s]) # "none" => at[s] > 1
  BY <1>1, InChain DEF Behind
<1>3. ASSUME Behind(at[s]) = "all"
      PROVE  \A t \in Slots : Passed(t, at[s] - 1)
  <2>1. at[s] - 1 \in 1 .. call.stages
    BY <1>1, <1>2, <1>3, InChain, SMTT(30)
  <2>2. Passed(s, at[s] - 1)
    BY <1>1, InChain DEF Passed
  <2>3. \A t \in Others(s) : Reached(t, at[s] - 1)
    BY <1>3 DEF MayEnter
  <2> QED
    BY <2>1, <2>2, <2>3 DEF ChainCourse, Others
<1>4. ASSUME Behind(at[s]) = "serial", s # 0
      PROVE  Passed(0, at[s])
  <2>1. Reached(0, at[s])
    BY <1>4 DEF MayEnter, SerialTarget
  <2> QED
    BY <1>1, <2>1, InChain DEF ChainCourse
<1> QED
  BY <1>1, <1>2, <1>3, <1>4

(* So it may run its chunk, *)
LEMMA ChunkReady ==
  ASSUME CommonInv, Kind = "chain", ChainPlaces, ChainCourse, ~cancelled, ~Dynamic,
         NEW s \in Slots, At(s, "wait"), MayEnter(s, at[s]), RunsBody(s, at[s])
  PROVE  /\ <<at[s], s>> \in ChainUnits(call)
         /\ ChainNeeds(call, <<at[s], s>>) \subseteq ended
<1> DEFINE i == at[s]
<1>1. /\ i \in 1 .. call.stages
      /\ Behind(i) = "all" => i > 1 /\ \A t \in Slots : Passed(t, i - 1)
      /\ Behind(i) = "serial" /\ s # 0 => Passed(0, i)
  BY Crossing
<1>2. call.stages \in Nat /\ call.blocks = 0 /\ at \in [Slots -> Nat] /\ 0 \in Slots
  BY InChain, SMTT(30) DEF Dynamic
<1>3. <<i, s>> \in ChainUnits(call)
  BY <1>1, <1>2, ChainUnit DEF SharesOf, RunsBody, Behind
<1>4. ASSUME NEW v \in ChainUnits(call), v[1] < i,
             \/ \E j \in v[1] .. i - 1 : call.barriers[j] = "all"
             \/ v[1] > 1 /\ call.barriers[v[1] - 1] = "serial"
             \/ v[2] = s
      PROVE  v \in ended
  <2>1. /\ v = <<v[1], v[2]>> /\ v[1] \in 1 .. call.stages /\ v[2] \in Slots
        /\ RunsBody(v[2], v[1])
    BY <1>2, ChainUnit DEF SharesOf, RunsBody, Behind
  <2>2. SUFFICES Over(v[2], v[1])
    BY <2>1, <1>2 DEF ChainCourse, Dynamic
  <2>3. CASE v[2] = s
    BY <1>2, <1>4, <2>3 DEF Over
  <2>4. ASSUME NEW j \in v[1] .. i - 1, call.barriers[j] = "all"
        PROVE  Over(v[2], v[1])
    <3>1. Passed(v[2], j)
      <4>1. CASE j = i - 1
        BY <1>1, <1>2, <2>1, <2>4, <4>1 DEF Behind
      <4>2. CASE j # i - 1
        <5>1. j \in 1 .. call.stages - 1 /\ i > j + 1
          BY <1>1, <1>2, <2>1, <4>2
        <5>2. Entered(s, j + 1)
          BY <5>1, <1>2 DEF Entered
        <5> QED
          BY <2>1, <2>4, <5>1, <5>2 DEF ChainCourse
      <4> QED
        BY <4>1, <4>2
    <3> QED
      BY <1>2, <2>1, <2>4, <3>1 DEF Passed, Over
  <2>5. CASE v[1] > 1 /\ call.barriers[v[1] - 1] = "serial"
    <3>1. v[2] = 0 /\ Behind(v[1]) = "serial" /\ v[1] \in 2 .. call.stages
      BY <2>1, <2>5, <1>2 DEF RunsBody, Behind
    <3>2. CASE s = 0
      BY <2>3, <3>1, <3>2
    <3>3. CASE s # 0
      <4>1. Entered(s, v[1])
        BY <1>2, <1>4, <2>1 DEF Entered
      <4>2. Passed(0, v[1])
        BY <3>1, <3>3, <4>1 DEF ChainCourse
      <4> QED
        BY <3>1, <4>2 DEF Passed, Over
    <3> QED
      BY <3>2, <3>3
  <2> QED
    BY <1>4, <2>3, <2>4, <2>5
<1> QED
  BY <1>2, <1>3, <1>4 DEF ChainNeeds

(* or claim blocks of the stage. *)
LEMMA BlocksReady ==
  ASSUME CommonInv, Kind = "chain", ChainPlaces, ChainCourse, BeganDynamic, ~cancelled,
         Dynamic, NEW s \in Slots, At(s, "wait"), MayEnter(s, at[s])
  PROVE  StageNeeds(at[s]) \subseteq ended
<1> DEFINE i == at[s]
<1>1. /\ i \in 1 .. call.stages
      /\ Behind(i) = "all" => i > 1 /\ \A t \in Slots : Passed(t, i - 1)
  BY Crossing
<1>2. /\ call.stages \in Nat /\ call.blocks \in Nat /\ call.blocks > 0
      /\ at \in [Slots -> Nat] /\ 0 \in Slots
      /\ \A t \in Slots : t \in job <=> pc[t] = "idle"
  BY InChain DEF Dynamic
<1>3. ASSUME NEW v \in ChainUnits(call),
             \A t \in Slots : pc[t] \in {"body", "flag"} /\ item[t] = v => FALSE,
             \E t \in Slots : Over(t, v[1])
      PROVE  v \in ended
  <2>1. v = <<v[1], v[2]>> /\ v[1] \in 1 .. call.stages /\ v[2] \in 0 .. call.blocks - 1
    BY <1>2, ChainUnit DEF SharesOf
  <2>2. claimed[v[1]] >= call.blocks /\ claimed[v[1]] \in Nat
    BY <1>3, <2>1 DEF ChainCourse, BeganDynamic
  <2>3. v \in began
    BY <1>2, <2>1, <2>2 DEF BeganDynamic
  <2> QED
    BY <1>3, <2>3 DEF CommonInv, HistInv, ExcInv, Runs
<1>6. \A t \in Slots : pc[t] \in {"body", "flag"} => item[t][1] = at[t]
  <2> SUFFICES ASSUME NEW t \in Slots, pc[t] \in {"body", "flag"}
               PROVE  item[t][1] = at[t]
    OBVIOUS
  <2>1. t \in Slots \ job
    BY <1>2
  <2> QED
    BY <2>1 DEF ChainPlaces
<1>4. ASSUME NEW v \in ChainUnits(call), v[1] < i,
             NEW j \in v[1] .. i - 1, call.barriers[j] = "all"
      PROVE  v \in ended
  <2>1. v[1] \in 1 .. call.stages
    BY <1>2, ChainUnit
  <2>2. \A t \in Slots : Passed(t, j)
    <3>1. CASE j = i - 1
      BY <1>1, <1>2, <1>4, <2>1, <3>1 DEF Behind
    <3>2. CASE j # i - 1
      <4>1. j \in 1 .. call.stages - 1 /\ i > j + 1
        BY <1>1, <1>2, <2>1, <3>2
      <4>2. Entered(s, j + 1)
        BY <4>1, <1>2 DEF Entered
      <4> QED
        BY <1>4, <4>1, <4>2 DEF ChainCourse
    <3> QED
      BY <3>1, <3>2
  <2>3. \A t \in Slots : at[t] > v[1] \/ (at[t] = v[1] /\ pc[t] = "out")
    BY <1>2, <1>4, <2>1, <2>2 DEF Passed
  <2>4. \A t \in Slots : pc[t] \in {"body", "flag"} => item[t] # v
    BY <1>2, <1>6, <2>1, <2>3
  <2>5. Over(0, v[1])
    BY <1>2, <2>3 DEF Over
  <2> QED
    BY <1>2, <1>3, <2>4, <2>5
<1>5. ASSUME NEW v \in ChainUnits(call), v[1] < i,
             v[1] > 1, call.barriers[v[1] - 1] = "serial"
      PROVE  v \in ended
  <2>1. v[1] \in 2 .. call.stages /\ Behind(v[1]) = "serial"
    BY <1>2, <1>5, ChainUnit DEF Behind
  <2>2. at[0] > v[1] \/ (at[0] = v[1] /\ pc[0] = "out")
    <3>1. CASE s = 0
      BY <1>5, <3>1
    <3>2. CASE s # 0
      <4>1. Entered(s, v[1])
        BY <1>2, <1>5, <2>1 DEF Entered
      <4> QED
        BY <2>1, <3>2, <4>1 DEF ChainCourse, Passed
    <3> QED
      BY <3>1, <3>2
  <2>3. \A t \in Slots : pc[t] \in {"body", "flag"} => item[t] # v
    <3> SUFFICES ASSUME NEW t \in Slots, pc[t] \in {"body", "flag"}, item[t] = v
                 PROVE  FALSE
      OBVIOUS
    <3>1. at[t] = v[1]
      BY <1>6
    <3>2. t = 0
      BY <2>1, <3>1 DEF ChainCourse
    <3> QED
      BY <1>2, <2>1, <2>2, <3>1, <3>2
  <2>4. Over(0, v[1])
    BY <2>2 DEF Over
  <2> QED
    BY <1>2, <1>3, <2>3, <2>4
<1> QED
  BY <1>4, <1>5 DEF StageNeeds

(* Every action of a chain's slot is such a step. *)
LEMMA ChainSteps ==
  ASSUME CommonInv, ChainInv, NEW s \in Slots, ChainSlot(s)
  PROVE  SlotStep(s)
<1>1. Kind = "chain" /\ ChainPlaces /\ ChainCourse
  BY DEF ChainSlot, ChainInv
<1>2. /\ call # NoCall /\ call.stages \in Nat \ {0} /\ call.blocks \in Nat
      /\ Interval(call) = call.stages + 1 /\ Stages = call.stages
      /\ UnitsOf(Current) = ChainUnits(call)
      /\ \A u : /\ NeedsOf(Current, u) = ChainNeeds(call, u)
                /\ AfterOf(Current, u) = {}
      /\ pc \in [Slots -> Resting \union {"idle", "body", "flag"}]
      /\ at \in [Slots -> Nat]
      /\ cancelled \in BOOLEAN /\ stopped \in BOOLEAN
      /\ \A t \in Slots : t \in job <=> pc[t] = "idle"
  BY <1>1, InChain, SMTT(30)
<1>3. pc[s] # "idle" => at[s] \in 1 .. call.stages
  BY <1>1, <1>2 DEF ChainPlaces
<1>4. at = [at EXCEPT ![s] = at[s]]
  BY <1>2
<1>5. CASE ChainBegin(s)
  BY <1>2, <1>5 DEF ChainBegin, SlotStep, Begins
<1>6. CASE Enter(s)
  <2>1. at[s] \in 0 .. Stages
    BY <1>2, <1>3, <1>6 DEF Enter, At
  <2>2. CASE Dynamic \/ ~RunsBody(s, at[s])
    <3>1. Moves(s)
      BY <1>2, <1>4, <1>6, <2>1, <2>2 DEF Enter, Moves, At, Goto, Resting, poolVars, history, Cancelling
    <3> QED
      BY <1>2, <3>1 DEF SlotStep
  <2>3. CASE ~(Dynamic \/ ~RunsBody(s, at[s])) /\ Cancelling
    <3>1. Moves(s)
      BY <1>2, <1>4, <1>6, <2>1, <2>3 DEF Enter, RunOrLeave, Moves, At, Goto, Resting, poolVars, history, Cancelling
    <3> QED
      BY <1>2, <3>1 DEF SlotStep
  <2>4. CASE ~(Dynamic \/ ~RunsBody(s, at[s])) /\ ~Cancelling
    <3> DEFINE u == <<at[s], s>>
    <3>1. /\ Run(s, u) /\ cancelled' = cancelled
          /\ UNCHANGED <<poolVars, at, done, exc, stopped>>
      BY <1>2, <1>6, <2>4 DEF Enter, RunOrLeave, Cancelling
    <3>2. u \in ChainUnits(call) /\ ChainNeeds(call, u) \subseteq ended
      BY <1>1, <1>6, <2>4, ChunkReady DEF Enter, Cancelling
    <3>3. u \notin began
      BY <1>1, <1>2, <1>6, <2>4 DEF Enter, At, ChainInv, BeganStatic, Entered
    <3>4. Starts(s, u)
      BY <1>2, <1>6, <3>1, <3>2, <3>3 DEF Starts, Enter, At, Resting
    <3> QED
      BY <1>2, <3>4 DEF SlotStep
  <2> QED
    BY <2>2, <2>3, <2>4
<1>7. CASE Claim(s)
  <2> DEFINE i == at[s]
             b == claimed[i]
  <2>1. Dynamic /\ i \in 1 .. call.stages /\ pc[s] = "claim" /\ pc[s] \in Resting
    BY <1>1, <1>2, <1>3, <1>7 DEF Claim, At, ChainPlaces, Resting
  <2>2. BeganDynamic /\ b \in Nat
    BY <1>1, <2>1 DEF ChainInv, BeganDynamic
  <2>3. CASE b >= call.blocks
    <3>1. Moves(s)
      BY <1>2, <1>4, <1>7, <2>1, <2>3 DEF Claim, Moves, Resting, poolVars, history, Goto
    <3> QED
      BY <1>2, <3>1 DEF SlotStep
  <2>4. CASE ~(b >= call.blocks)
    <3>1. Run(s, <<i, b>>) /\ UNCHANGED <<poolVars, at, done, cancelled, exc, stopped>>
      BY <1>7, <2>4 DEF Claim
    <3>2. <<i, b>> \notin began
      BY <2>2 DEF BeganDynamic
    <3>3. <<i, b>> \in ChainUnits(call)
      BY <1>2, <2>1, <2>2, <2>4, ChainUnit, SMTT(30) DEF SharesOf, Dynamic
    <3>4. ChainNeeds(call, <<i, b>>) \subseteq ended
      <4>1. ChainNeeds(call, <<i, b>>) \subseteq StageNeeds(i)
        BY <1>2, <2>1 DEF ChainNeeds, StageNeeds, Dynamic
      <4> QED
        BY <2>1, <2>2, <4>1 DEF BeganDynamic
    <3>5. Starts(s, <<i, b>>)
      BY <1>2, <2>1, <3>1, <3>2, <3>3, <3>4 DEF Starts
    <3> QED
      BY <1>2, <3>5 DEF SlotStep
  <2> QED
    BY <2>3, <2>4
<1>8. CASE Poll(s) \/ Bail(s) \/ StageStamp(s)
  <2>1. pc[s] # "idle" /\ pc[s] \in Resting
    BY <1>8 DEF Poll, Bail, StageStamp, At, Resting
  <2>2. at[s] \in 1 .. call.stages
    BY <1>3, <2>1
  <2>3. at' = [at EXCEPT ![s] = at'[s]] /\ at'[s] \in 0 .. Stages
    <3>1. CASE Poll(s) \/ Bail(s)
      <4>1. at' = at
        BY <3>1 DEF Poll, Bail, Go, StampAndGo
      <4> QED
        BY <1>2, <1>4, <2>2, <4>1
    <3>2. CASE StageStamp(s)
      BY <1>2, <2>2, <3>2 DEF StageStamp
    <3> QED
      BY <1>8, <3>1, <3>2
  <2>4. \E q \in Resting : Goto(s, q)
    BY <1>8 DEF Poll, Bail, StageStamp, Go, StampAndGo, Resting
  <2>5. done' = done \/ \E x \in 0 .. Interval(call) : Stamp(s, x)
    BY <1>2, <1>8, <2>2 DEF Poll, Bail, StageStamp, Go, StampAndGo
  <2>6. Moves(s)
    BY <1>8, <2>1, <2>3, <2>4, <2>5 DEF Moves, Poll, Bail, StageStamp, Go, StampAndGo, poolVars, history
  <2> QED
    BY <1>2, <2>6 DEF SlotStep
<1>9. CASE StageOver(s) \/ StageThrow(s) \/ StageFlag(s)
  BY <1>2, <1>9 DEF StageOver, StageThrow, StageFlag, SlotStep, Ends, Flags, Resting
<1> QED
  BY <1>5, <1>6, <1>7, <1>8, <1>9 DEF ChainSlot

(* What no step changes of a chain, and what the other slots keep. *)
LEMMA ChainFrame ==
  ASSUME CommonInv, Kind = "chain", NEW s \in Slots, SlotStep(s)
  PROVE  /\ call' = call /\ Kind' = Kind /\ (Dynamic' <=> Dynamic) /\ epochBase' = epochBase
         /\ Line' = Line
         /\ \A i : Behind(i)' = Behind(i)
         /\ \A t, i : RunsBody(t, i)' <=> RunsBody(t, i)
         /\ \A i : StageNeeds(i)' = StageNeeds(i)
         /\ (cancelled => cancelled') /\ began \subseteq began' /\ ended \subseteq ended'
         /\ \A t \in Slots \ {s} : /\ pc'[t] = pc[t] /\ at'[t] = at[t] /\ item'[t] = item[t]
                                   /\ t \in job' <=> t \in job
                                   /\ \A j : Reached(t, j)' <=> Reached(t, j)
<1>1. call' = call
  BY OthersKeep
<1>2. (Dynamic' <=> Dynamic) /\ \A i : Behind(i)' = Behind(i)
  BY <1>1 DEF Dynamic, Behind
<1>3. \A t, i : RunsBody(t, i)' <=> RunsBody(t, i)
  BY <1>2 DEF RunsBody
<1>4. \A i : StageNeeds(i)' = StageNeeds(i)
  BY <1>1 DEF StageNeeds
<1> QED
  BY <1>2, <1>3, <1>4, OthersKeep

(* Where a slot goes on, and that what is behind it stays behind it. *)
LEMMA ChainPlacesKept ==
  ASSUME CommonInv, ChainInv, NEW s \in Slots, ChainSlot(s)
  PROVE  ChainPlaces'
<1>1. Kind = "chain" /\ ChainPlaces /\ SlotStep(s)
  BY ChainSteps DEF ChainSlot, ChainInv
<1>2. /\ call.stages \in Nat \ {0}
      /\ pc \in [Slots -> Resting \union {"idle", "body", "flag"}]
      /\ at \in [Slots -> Nat] /\ item \in [Slots -> Int \X Int]
      /\ \A t \in Slots : t \in job <=> pc[t] = "idle"
  BY <1>1, InChain
<1>3. /\ call' = call /\ (Dynamic' <=> Dynamic) /\ (cancelled => cancelled')
      /\ \A t \in Slots \ {s} : /\ pc'[t] = pc[t] /\ at'[t] = at[t] /\ item'[t] = item[t]
                                /\ t \in job' <=> t \in job
  BY <1>1, ChainFrame
<1> DEFINE Fits(t) ==
      /\ at[t] \in 1 .. call.stages
      /\ pc[t] \in {"wait", "poll", "claim", "body", "flag", "bail", "stamp", "out"}
      /\ pc[t] \in {"poll", "claim"} => Dynamic
      /\ pc[t] = "bail" => cancelled
      /\ pc[t] = "out" /\ ~cancelled => at[t] = call.stages
      /\ pc[t] \in {"body", "flag"} => /\ item[t][1] = at[t]
                                       /\ ~Dynamic => item[t] = <<at[t], t>>
<1>4. \A t \in Slots \ job : Fits(t)
  BY <1>1 DEF ChainPlaces
<1>5. \A t \in Slots \ {s} : t \notin job' => Fits(t)'
  BY <1>3, <1>4
<1>6. Fits(s)'
  <2>1. CASE ChainBegin(s)
    BY <1>2, <1>3, <2>1 DEF ChainBegin, Begin, Goto
  <2>2. CASE ~ChainBegin(s)
    <3>1. Fits(s)
      <4>1. pc[s] # "idle"
        BY <2>2 DEF ChainSlot, Enter, Poll, Claim, StageOver, StageThrow, StageFlag, Bail,
                    StageStamp, Complete, Throw, Flag, At
      <4> QED
        BY <1>2, <1>4, <4>1
    <3>2. CASE Enter(s)
      BY <1>2, <1>3, <3>1, <3>2 DEF Enter, RunOrLeave, Run, Goto, At, Dynamic
    <3>3. CASE Poll(s)
      BY <1>2, <1>3, <3>1, <3>3 DEF Poll, Go, Goto, At
    <3>4. CASE Claim(s)
      BY <1>2, <1>3, <3>1, <3>4 DEF Claim, Run, Goto, At
    <3>5. CASE StageOver(s)
      BY <1>2, <1>3, <3>1, <3>5 DEF StageOver, Complete, Goto, At
    <3>6. CASE StageThrow(s)
      BY <1>2, <1>3, <3>1, <3>6 DEF StageThrow, Throw, Goto, At
    <3>7. CASE StageFlag(s)
      BY <1>2, <1>3, <3>1, <3>7 DEF StageFlag, Flag, Goto, At
    <3>8. CASE Bail(s)
      BY <1>2, <1>3, <3>1, <3>8 DEF Bail, StampAndGo, Goto, At
    <3>9. CASE StageStamp(s)
      BY <1>2, <1>3, <3>1, <3>9, SMTT(30) DEF StageStamp, Goto, At
    <3> QED
      BY <2>2, <3>2, <3>3, <3>4, <3>5, <3>6, <3>7, <3>8, <3>9 DEF ChainSlot
  <2> QED
    BY <2>1, <2>2
<1> QED
  BY <1>5, <1>6 DEF ChainPlaces

LEMMA ChainForward ==
  ASSUME CommonInv, ChainInv, NEW s \in Slots, ChainSlot(s)
  PROVE  /\ \A t \in Slots : \A i \in 1 .. call.stages :
              /\ Entered(t, i) => Entered(t, i)'
              /\ Passed(t, i) => Passed(t, i)'
              /\ Entered(t, i)' => Entered(t, i) \/ (t = s /\ Enter(s) /\ i = at[s])
         /\ Dynamic => \A i \in 1 .. call.stages : claimed'[i] >= claimed[i]
<1>1. Kind = "chain" /\ ChainPlaces /\ SlotStep(s) /\ (Dynamic => BeganDynamic)
  BY ChainSteps DEF ChainSlot, ChainInv
<1>2. /\ call.stages \in Nat \ {0}
      /\ pc \in [Slots -> Resting \union {"idle", "body", "flag"}]
      /\ at \in [Slots -> Nat]
      /\ \A t \in Slots : t \in job <=> pc[t] = "idle"
      /\ \A t \in Slots : pc[t] = "idle" => at[t] = 0
  BY <1>1, InChain
<1>3. \A t \in Slots \ {s} : pc'[t] = pc[t] /\ at'[t] = at[t]
  BY <1>1, ChainFrame
<1>4. \/ /\ pc[s] = "idle" /\ at[s] = 0 /\ pc'[s] = "wait" /\ at'[s] = 1
      \/ /\ pc[s] \in {"wait", "poll", "claim", "body", "flag"}
         /\ pc'[s] \in {"poll", "claim", "body", "flag", "stamp", "bail"}
         /\ at'[s] = at[s] /\ (pc[s] = "wait" => Enter(s))
      \/ /\ pc[s] \in {"bail", "stamp"} /\ pc'[s] = "out" /\ at'[s] = at[s]
      \/ /\ pc[s] = "stamp" /\ pc'[s] = "wait" /\ at'[s] = at[s] + 1
  <2>1. CASE ChainBegin(s)
    BY <1>2, <2>1 DEF ChainBegin, Begin, Goto
  <2>2. CASE Enter(s)
    BY <1>2, <2>2 DEF Enter, RunOrLeave, Run, Goto, At
  <2>3. CASE Poll(s) \/ Claim(s)
    BY <1>2, <2>3 DEF Poll, Claim, Go, Run, Goto, At
  <2>4. CASE StageOver(s) \/ StageThrow(s) \/ StageFlag(s)
    BY <1>2, <2>4 DEF StageOver, Complete, StageThrow, Throw, StageFlag, Flag, Goto, At
  <2>5. CASE Bail(s) \/ StageStamp(s)
    BY <1>2, <2>5 DEF Bail, StampAndGo, StageStamp, Goto, At
  <2> QED
    BY <2>1, <2>2, <2>3, <2>4, <2>5 DEF ChainSlot
<1>5. \A i \in 1 .. call.stages :
        /\ Entered(s, i) => Entered(s, i)'
        /\ Passed(s, i) => Passed(s, i)'
        /\ Entered(s, i)' => Entered(s, i) \/ (Enter(s) /\ i = at[s])
  BY <1>2, <1>4 DEF Entered, Passed
<1>6. \A t \in Slots \ {s} : \A i \in 1 .. call.stages :
        /\ Entered(t, i)' <=> Entered(t, i)
        /\ Passed(t, i)' <=> Passed(t, i)
  BY <1>3 DEF Entered, Passed
<1>7. Dynamic => \A i \in 1 .. call.stages : claimed'[i] >= claimed[i]
  <2>1. CASE claimed' = claimed
    BY <1>1, <2>1 DEF BeganDynamic
  <2>2. CASE Claim(s)
    BY <1>1, <1>2, <2>2 DEF BeganDynamic, Claim
  <2> QED
    BY <2>1, <2>2 DEF ChainSlot, ChainBegin, Enter, Poll, StageOver, StageThrow, StageFlag, Bail,
                      StageStamp
<1> QED
  BY <1>5, <1>6, <1>7

LEMMA ChainBeganKept ==
  ASSUME CommonInv, ChainInv, NEW s \in Slots, ChainSlot(s)
  PROVE  /\ (~Dynamic => BeganStatic)'
         /\ (Dynamic => BeganDynamic)'
<1>1. /\ Kind = "chain" /\ ChainPlaces /\ ChainCourse /\ SlotStep(s)
      /\ (~Dynamic => BeganStatic) /\ (Dynamic => BeganDynamic)
  BY ChainSteps DEF ChainSlot, ChainInv
<1>2. /\ call.stages \in Nat \ {0} /\ call.blocks \in Nat
      /\ pc \in [Slots -> Resting \union {"idle", "body", "flag"}]
      /\ at \in [Slots -> Nat]
      /\ \A t \in Slots : t \in job <=> pc[t] = "idle"
      /\ cancelled \in BOOLEAN /\ stopped \in BOOLEAN
  BY <1>1, InChain
<1>3. /\ call' = call /\ (Dynamic' <=> Dynamic) /\ ended \subseteq ended'
      /\ \A t, i : RunsBody(t, i)' <=> RunsBody(t, i)
      /\ \A i : StageNeeds(i)' = StageNeeds(i)
      /\ \A t \in Slots \ {s} : pc'[t] = pc[t] /\ at'[t] = at[t]
  BY <1>1, ChainFrame
<1>4. \A t \in Slots : \A i \in 1 .. call.stages : Entered(t, i) => Entered(t, i)'
  BY ChainForward
<1>5. ASSUME ~Dynamic PROVE BeganStatic'
  <2>1. CASE began' = began
    BY <1>1, <1>3, <1>4, <1>5, <2>1 DEF BeganStatic
  <2>2. CASE Enter(s) /\ ~Cancelling /\ RunsBody(s, at[s])
    <3>1. began' = began \union {<<at[s], s>>} /\ pc'[s] = "body" /\ at'[s] = at[s]
      BY <1>2, <1>5, <2>2 DEF Enter, RunOrLeave, Run, Goto
    <3>2. at[s] \in 1 .. call.stages
      BY <1>1, <1>2, <2>2 DEF Enter, At, ChainPlaces
    <3>3. Entered(s, at[s])'
      BY <3>1 DEF Entered
    <3>4. \A u \in began : /\ u[1] \in 1 .. call.stages /\ u[2] \in Slots
                           /\ u = <<u[1], u[2]>>
                           /\ RunsBody(u[2], u[1])' /\ Entered(u[2], u[1])'
      BY <1>1, <1>3, <1>4, <1>5 DEF BeganStatic
    <3>5. RunsBody(s, at[s])'
      <4>1. \A i : RunsBody(s, i) => RunsBody(s, i)'
        BY <1>3
      <4> QED
        BY <2>2, <3>1, <4>1 DEF RunsBody, Behind
    <3>6. \A u \in began' : /\ u[1] \in 1 .. call.stages /\ u[2] \in Slots
                            /\ u = <<u[1], u[2]>>
                            /\ RunsBody(u[2], u[1])' /\ Entered(u[2], u[1])'
      <4> SUFFICES ASSUME NEW u \in began', u \notin began
                   PROVE  /\ u[1] \in 1 .. call.stages /\ u[2] \in Slots
                          /\ u = <<u[1], u[2]>>
                          /\ RunsBody(u[2], u[1])' /\ Entered(u[2], u[1])'
        BY <3>4
      <4>1. u = <<at[s], s>>
        BY <3>1
      <4>2. u[1] = at[s] /\ u[2] = s
        BY <4>1
      <4> QED
        BY <3>1, <3>2, <3>3, <3>5, <4>1, <4>2 DEF RunsBody, Behind, Entered
    <3> QED
      BY <1>3, <3>6 DEF BeganStatic
  <2>3. began' = began \/ (Enter(s) /\ ~Cancelling /\ RunsBody(s, at[s]))
    BY <1>1, <1>2, <1>5 DEF ChainSlot, ChainBegin, Begin, Enter, RunOrLeave, Poll, Go, Claim, At,
       ChainPlaces, StageOver, Complete, StageThrow, Throw, StageFlag, Flag, Bail, StampAndGo,
       StageStamp, history
  <2> QED
    BY <2>1, <2>2, <2>3
<1>6. ASSUME Dynamic PROVE BeganDynamic'
  <2>1. BeganDynamic
    BY <1>1, <1>6
  <2>2. \A t \in Slots \ {s} : pc'[t] \in {"poll", "claim", "body", "flag"} => StageNeeds(at'[t]) \subseteq ended'
    BY <1>3, <2>1 DEF BeganDynamic
  <2>3. pc'[s] \in {"poll", "claim", "body", "flag"} => StageNeeds(at'[s]) \subseteq ended'
    <3>1. CASE Enter(s) /\ ~Cancelling
      <4>1. at' = at /\ ended' = ended /\ ~cancelled
        BY <1>2, <1>6, <3>1 DEF Enter, history, Cancelling
      <4>2. StageNeeds(at[s]) \subseteq ended
        BY <1>1, <1>6, <2>1, <3>1, <4>1, BlocksReady DEF Enter
      <4> QED
        BY <4>1, <4>2
    <3>2. CASE Poll(s) \/ Claim(s) \/ StageOver(s) \/ StageThrow(s)
      <4>1. at' = at /\ pc[s] \in {"poll", "claim", "body", "flag"}
        BY <3>2 DEF Poll, Go, Claim, StageOver, Complete, StageThrow, Throw, At
      <4> QED
        BY <1>3, <2>1, <4>1 DEF BeganDynamic
    <3>3. CASE ~(Poll(s) \/ Claim(s) \/ StageOver(s) \/ StageThrow(s)) /\ ~(Enter(s) /\ ~Cancelling)
      <4>1. pc'[s] \in {"wait", "bail", "out"}
        BY <1>2, <1>6, <3>3 DEF ChainSlot, ChainBegin, Begin, Enter, StageFlag, Flag, Bail, StampAndGo,
           StageStamp, Goto
      <4> QED
        BY <4>1
    <3> QED
      BY <3>1, <3>2, <3>3
  <2>4. \A t \in Slots : pc'[t] \in {"poll", "claim", "body", "flag"} => StageNeeds(at[t])' \subseteq ended'
    BY <1>3, <2>2, <2>3 DEF StageNeeds
  <2>5. CASE claimed' = claimed /\ began' = began
    BY <1>3, <2>1, <2>4, <2>5 DEF BeganDynamic
  <2>6. CASE Claim(s)
    <3> DEFINE i == at[s]
               b == claimed[i]
    <3>1. i \in 1 .. call.stages /\ b \in Nat
      BY <1>1, <1>2, <2>1, <2>6 DEF Claim, At, ChainPlaces, BeganDynamic
    <3>2. claimed' = [claimed EXCEPT ![i] = b + 1] /\ claimed \in [1 .. call.stages -> Nat]
      BY <2>1, <2>6 DEF Claim, BeganDynamic
    <3>3. claimed' \in [1 .. call.stages -> Nat]
      BY <3>1, <3>2
    <3>4. \A j \in 1 .. call.stages : claimed'[j] = IF j = i THEN b + 1 ELSE claimed[j]
      BY <3>2
    <3>5. CASE b >= call.blocks
      <4>1. began' = began
        BY <2>6, <3>5 DEF Claim, history
      <4>2. \A u \in began' : /\ u[1] \in 1 .. call.stages /\ u[2] \in 0 .. call.blocks - 1
                              /\ u = <<u[1], u[2]>> /\ u[2] < claimed'[u[1]]
        BY <2>1, <3>1, <3>4, <4>1 DEF BeganDynamic
      <4>3. \A j \in 1 .. call.stages : \A d \in 0 .. call.blocks - 1 :
              d < claimed'[j] => <<j, d>> \in began'
        BY <1>2, <2>1, <3>1, <3>4, <3>5, <4>1, SMTT(30) DEF BeganDynamic
      <4> QED
        BY <1>3, <2>4, <3>3, <4>2, <4>3 DEF BeganDynamic
    <3>6. CASE ~(b >= call.blocks)
      <4>1. began' = began \union {<<i, b>>}
        BY <2>6, <3>6 DEF Claim, Run
      <4>2. \A u \in began' : /\ u[1] \in 1 .. call.stages /\ u[2] \in 0 .. call.blocks - 1
                              /\ u = <<u[1], u[2]>> /\ u[2] < claimed'[u[1]]
        BY <1>2, <2>1, <3>1, <3>4, <3>6, <4>1 DEF BeganDynamic
      <4>3. \A j \in 1 .. call.stages : \A d \in 0 .. call.blocks - 1 :
              d < claimed'[j] => <<j, d>> \in began'
        <5> SUFFICES ASSUME NEW j \in 1 .. call.stages, NEW d \in 0 .. call.blocks - 1,
                            d < claimed'[j]
                     PROVE  <<j, d>> \in began'
          OBVIOUS
        <5>1. CASE j = i /\ d = b
          BY <4>1, <5>1
        <5>2. CASE ~(j = i /\ d = b)
          <6>1. d < claimed[j]
            BY <1>2, <3>1, <3>4, <5>2
          <6> QED
            BY <2>1, <4>1, <6>1 DEF BeganDynamic
        <5> QED
          BY <5>1, <5>2
      <4> QED
        BY <1>3, <2>4, <3>3, <4>2, <4>3 DEF BeganDynamic
    <3> QED
      BY <3>5, <3>6
  <2>7. Claim(s) \/ (claimed' = claimed /\ began' = began)
    BY <1>6 DEF ChainSlot, ChainBegin, Begin, Enter, Poll, Go, StageOver, Complete,
       StageThrow, Throw, StageFlag, Flag, Bail, StampAndGo, StageStamp, history
  <2> QED
    BY <2>5, <2>6, <2>7
<1> QED
  BY <1>3, <1>5, <1>6

LEMMA ChainCourseKept ==
  ASSUME CommonInv, ChainInv, NEW s \in Slots, ChainSlot(s)
  PROVE  ChainCourse'
<1> SUFFICES ASSUME ~cancelled' PROVE ChainCourse'
  BY DEF ChainCourse
<1>1. /\ Kind = "chain" /\ ChainPlaces /\ ChainCourse /\ SlotStep(s)
      /\ (Dynamic => BeganDynamic)
  BY ChainSteps DEF ChainSlot, ChainInv
<1>2. /\ call.stages \in Nat \ {0} /\ call.blocks \in Nat
      /\ pc \in [Slots -> Resting \union {"idle", "body", "flag"}]
      /\ at \in [Slots -> Nat] /\ epochBase \in Nat
      /\ done \in [Lines -> [Slots -> Nat]] /\ Line = "chain" /\ "chain" \in Lines
      /\ \A t \in Slots : t \in job <=> pc[t] = "idle"
      /\ cancelled \in BOOLEAN /\ stopped \in BOOLEAN /\ 0 \in Slots
  BY <1>1, InChain
<1>3. /\ call' = call /\ (Dynamic' <=> Dynamic) /\ ended \subseteq ended' /\ ~cancelled
      /\ epochBase' = epochBase /\ Line' = Line
      /\ \A i : Behind(i)' = Behind(i)
      /\ \A t, i : RunsBody(t, i)' <=> RunsBody(t, i)
      /\ \A t \in Slots \ {s} : pc'[t] = pc[t] /\ at'[t] = at[t]
      /\ \A t \in Slots \ {s} : \A j : Reached(t, j)' <=> Reached(t, j)
  BY <1>1, ChainFrame
<1>4. /\ \A t \in Slots : \A i \in 1 .. call.stages :
           /\ Entered(t, i) => Entered(t, i)'
           /\ Passed(t, i) => Passed(t, i)'
           /\ Entered(t, i)' => Entered(t, i) \/ (t = s /\ Enter(s) /\ i = at[s])
      /\ Dynamic => \A i \in 1 .. call.stages : claimed'[i] >= claimed[i]
  BY ChainForward
<1>5. pc[s] # "idle" => at[s] \in 1 .. call.stages
  BY <1>1, <1>2 DEF ChainPlaces
<1>6. ASSUME ~Dynamic, NEW t \in Slots, NEW i \in 1 .. call.stages, Over(t, i)', RunsBody(t, i)
      PROVE  <<i, t>> \in ended'
  <2>1. CASE Over(t, i)
    BY <1>1, <1>3, <1>6, <2>1 DEF ChainCourse
  <2>2. CASE ~Over(t, i)
    <3>1. t = s
      BY <1>3, <1>6, <2>2 DEF Over
    <3>2. at'[s] > i \/ (at'[s] = i /\ pc'[s] \in {"stamp", "out"})
      BY <1>6, <3>1 DEF Over
    <3>3. ~(at[s] > i) /\ ~(at[s] = i /\ pc[s] \in {"stamp", "out"})
      BY <2>2, <3>1 DEF Over
    <3>4. CASE StageOver(s)
      <4>1. pc[s] = "body" /\ at' = at /\ ended' = ended \union {item[s]}
        BY <3>4 DEF StageOver, Complete, At
      <4>2. item[s] = <<at[s], s>>
        BY <1>1, <1>2, <1>6, <4>1 DEF ChainPlaces
      <4> QED
        BY <3>1, <3>2, <3>3, <4>1, <4>2
    <3>5. CASE ~StageOver(s)
      <4>1. CASE ChainBegin(s)
        BY <1>2, <3>2, <4>1 DEF ChainBegin, Begin, Goto
      <4>2. CASE Enter(s)
        <5>1. at' = at /\ at[s] = i /\ pc'[s] = "stamp"
          BY <1>2, <3>2, <3>3, <4>2 DEF Enter, RunOrLeave, Run, Goto
        <5>2. ~RunsBody(s, at[s])
          BY <1>2, <1>6, <4>2, <5>1 DEF Enter, RunOrLeave, Run, Goto
        <5> QED
          BY <1>6, <3>1, <5>1, <5>2
      <4>3. CASE Poll(s) \/ Claim(s)
        BY <1>1, <1>2, <1>6, <4>3 DEF Poll, Claim, At, ChainPlaces
      <4>4. CASE StageThrow(s) \/ StageFlag(s)
        BY <1>2, <3>2, <3>3, <4>4 DEF StageThrow, Throw, StageFlag, Flag, Goto
      <4>5. CASE Bail(s)
        BY <1>1, <1>2, <1>3, <4>5 DEF Bail, At, ChainPlaces
      <4>6. CASE StageStamp(s)
        <5>1. pc[s] = "stamp" /\ at[s] \in Nat
          BY <1>2, <4>6 DEF StageStamp, At
        <5>2. \/ pc'[s] = "out" /\ at'[s] = at[s]
              \/ pc'[s] = "wait" /\ at'[s] = at[s] + 1
          BY <1>2, <4>6 DEF StageStamp, Goto
        <5>3. i \in Nat
          BY <1>2
        <5>4. CASE pc'[s] = "out" /\ at'[s] = at[s]
          BY <3>2, <3>3, <5>1, <5>3, <5>4
        <5>5. CASE pc'[s] = "wait" /\ at'[s] = at[s] + 1
          BY <3>2, <3>3, <5>1, <5>3, <5>5
        <5> QED
          BY <5>2, <5>4, <5>5
      <4> QED
        BY <3>5, <4>1, <4>2, <4>3, <4>4, <4>5, <4>6 DEF ChainSlot
    <3> QED
      BY <3>4, <3>5
  <2> QED
    BY <2>1, <2>2
<1>7. ASSUME Dynamic, NEW t \in Slots, NEW i \in 1 .. call.stages, Over(t, i)'
      PROVE  claimed'[i] >= call.blocks
  <2>0. BeganDynamic
    BY <1>1, <1>7
  <2>1. CASE Over(t, i)
    <3>1. claimed[i] >= call.blocks
      BY <1>1, <1>3, <1>7, <2>1 DEF ChainCourse
    <3>2. claimed'[i] \in Nat /\ claimed[i] \in Nat /\ claimed'[i] >= claimed[i]
      BY <1>3, <1>4, <1>7, <2>0, ChainBeganKept DEF BeganDynamic
    <3> QED
      BY <1>2, <3>1, <3>2
  <2>2. CASE ~Over(t, i)
    <3>1. t = s
      BY <1>3, <1>7, <2>2 DEF Over
    <3>2. at'[s] > i \/ (at'[s] = i /\ pc'[s] \in {"stamp", "out"})
      BY <1>7, <3>1 DEF Over
    <3>3. ~(at[s] > i) /\ ~(at[s] = i /\ pc[s] \in {"stamp", "out"})
      BY <2>2, <3>1 DEF Over
    <3>4. CASE Claim(s)
      <4>1. at' = at /\ at[s] = i /\ pc'[s] = "stamp"
        BY <1>2, <3>2, <3>3, <3>4 DEF Claim, Run, Goto
      <4>2. claimed[i] >= call.blocks /\ claimed[i] \in Nat
        BY <1>2, <2>0, <3>4, <4>1 DEF Claim, Run, Goto, BeganDynamic
      <4>3. claimed'[i] >= claimed[i] /\ claimed'[i] \in Nat
        BY <1>3, <1>4, <1>7, ChainBeganKept DEF BeganDynamic
      <4> QED
        BY <1>2, <4>2, <4>3
    <3>5. CASE ~Claim(s)
      <4>1. CASE ChainBegin(s)
        BY <1>2, <3>2, <4>1 DEF ChainBegin, Begin, Goto
      <4>2. CASE Enter(s) \/ Poll(s)
        BY <1>2, <1>3, <1>7, <3>2, <3>3, <4>2 DEF Enter, Poll, Go, Goto
      <4>3. CASE StageOver(s) \/ StageThrow(s) \/ StageFlag(s)
        BY <1>2, <1>7, <3>2, <3>3, <4>3 DEF StageOver, Complete, StageThrow, Throw, StageFlag, Flag, Goto
      <4>4. CASE Bail(s)
        BY <1>1, <1>2, <1>3, <4>4 DEF Bail, At, ChainPlaces
      <4>5. CASE StageStamp(s)
        <5>1. pc[s] = "stamp" /\ at[s] \in Nat
          BY <1>2, <4>5 DEF StageStamp, At
        <5>2. \/ pc'[s] = "out" /\ at'[s] = at[s]
              \/ pc'[s] = "wait" /\ at'[s] = at[s] + 1
          BY <1>2, <4>5 DEF StageStamp, Goto
        <5>3. i \in Nat
          BY <1>2
        <5>4. CASE pc'[s] = "out" /\ at'[s] = at[s]
          BY <3>2, <3>3, <5>1, <5>3, <5>4
        <5>5. CASE pc'[s] = "wait" /\ at'[s] = at[s] + 1
          BY <3>2, <3>3, <5>1, <5>3, <5>5
        <5> QED
          BY <5>2, <5>4, <5>5
      <4> QED
        BY <3>5, <4>1, <4>2, <4>3, <4>4, <4>5 DEF ChainSlot
    <3> QED
      BY <3>4, <3>5
  <2> QED
    BY <2>1, <2>2
<1>8. ASSUME NEW t \in Slots, NEW j \in 1 .. call.stages, Reached(t, j)'
      PROVE  Passed(t, j)'
  <2>1. CASE Reached(t, j)
    BY <1>1, <1>3, <1>4, <2>1 DEF ChainCourse
  <2>2. CASE ~Reached(t, j)
    <3>1. t = s
      BY <1>3, <1>8, <2>2
    <3>2. done' # done
      BY <1>3, <1>8, <2>2 DEF Reached
    <3>3. CASE StageStamp(s)
      <4>1. /\ done' = [done EXCEPT !["chain"][s] = epochBase + at[s]] /\ pc[s] = "stamp"
            /\ (pc'[s] = "out" /\ at'[s] = at[s]) \/ at'[s] = at[s] + 1
        BY <1>2, <3>2, <3>3 DEF StageStamp, Stamp, Goto, At
      <4>2. done'["chain"][s] = epochBase + at[s]
        BY <1>2, <4>1
      <4>3. j <= at[s]
        BY <1>2, <1>3, <1>8, <3>1, <4>2 DEF Reached
      <4> QED
        BY <1>2, <3>1, <4>1, <4>3 DEF Passed
    <3>4. CASE Bail(s)
      BY <1>1, <1>2, <1>3, <3>4 DEF Bail, At, ChainPlaces
    <3> QED
      BY <3>2, <3>3, <3>4 DEF ChainSlot, ChainBegin, Begin, Enter, RunOrLeave, Poll, Go, Claim,
         StageOver, Complete, StageThrow, Throw, StageFlag, Flag
  <2> QED
    BY <2>1, <2>2
<1>9. ASSUME NEW t \in Slots, NEW j \in 1 .. call.stages - 1, call.barriers[j] = "all",
             Entered(t, j + 1)', NEW r \in Slots
      PROVE  Passed(r, j)'
  <2>1. j \in 1 .. call.stages /\ j + 1 \in 1 .. call.stages /\ j + 1 - 1 = j /\ j + 1 # 1
    BY <1>2
  <2>2. CASE Entered(t, j + 1)
    BY <1>1, <1>3, <1>4, <1>9, <2>1, <2>2 DEF ChainCourse
  <2>3. CASE ~Entered(t, j + 1)
    <3>1. Enter(s) /\ at[s] = j + 1
      BY <1>4, <1>9, <2>1, <2>3
    <3>2. Behind(at[s]) = "all"
      BY <1>9, <2>1, <3>1 DEF Behind
    <3>3. Passed(r, at[s] - 1)
      BY <1>1, <1>3, <3>1, <3>2, Crossing DEF Enter
    <3> QED
      BY <1>4, <2>1, <3>1, <3>3
  <2> QED
    BY <2>2, <2>3
<1>10. ASSUME NEW t \in Slots \ {0}, NEW k \in 2 .. call.stages, Behind(k) = "serial", Entered(t, k)'
       PROVE  Passed(0, k)'
  <2>1. k \in 1 .. call.stages
    BY <1>2
  <2>2. CASE Entered(t, k)
    BY <1>1, <1>2, <1>3, <1>4, <1>10, <2>1, <2>2 DEF ChainCourse
  <2>3. CASE ~Entered(t, k)
    <3>1. Enter(s) /\ at[s] = k /\ t = s
      BY <1>4, <1>10, <2>1, <2>3
    <3>2. Passed(0, k)
      BY <1>1, <1>3, <1>10, <3>1, Crossing DEF Enter
    <3> QED
      BY <1>2, <1>4, <2>1, <3>2
  <2> QED
    BY <2>2, <2>3
<1>11. ASSUME Dynamic, NEW t \in Slots, pc'[t] \in {"body", "flag"}, Behind(at'[t]) = "serial"
       PROVE  t = 0
  <2>1. CASE pc[t] \in {"body", "flag"} /\ at'[t] = at[t]
    BY <1>1, <1>3, <1>11, <2>1 DEF ChainCourse
  <2>2. CASE ~(pc[t] \in {"body", "flag"} /\ at'[t] = at[t])
    <3>1. t = s
      BY <1>3, <1>11, <2>2
    <3>2. Claim(s) /\ ~(claimed[at[s]] >= call.blocks) /\ at' = at /\ pc[s] = "claim"
      <4>1. CASE Enter(s)
        BY <1>2, <1>11, <3>1, <4>1 DEF Enter, Goto
      <4>2. CASE Claim(s)
        BY <1>2, <1>11, <3>1, <4>2 DEF Claim, Goto, At
      <4>3. CASE ~Enter(s) /\ ~Claim(s)
        BY <1>2, <1>11, <2>2, <3>1, <4>3 DEF ChainSlot, ChainBegin, Begin, Poll, Go, StageOver,
           Complete, StageThrow, Throw, StageFlag, Flag, Bail, StampAndGo, StageStamp, Goto, At
      <4> QED
        BY <4>1, <4>2, <4>3
    <3>3. SUFFICES ASSUME s # 0 PROVE FALSE
      BY <3>1
    <3>4. at[s] \in 2 .. call.stages
      BY <1>2, <1>5, <1>11, <3>1, <3>2 DEF Behind
    <3>5. Entered(s, at[s])
      BY <3>2 DEF Entered
    <3>6. Passed(0, at[s])
      BY <1>1, <1>3, <1>11, <3>1, <3>2, <3>3, <3>4, <3>5 DEF ChainCourse
    <3>7. Over(0, at[s])
      BY <3>6 DEF Passed, Over
    <3>8. claimed[at[s]] >= call.blocks
      BY <1>1, <1>2, <1>3, <1>5, <1>11, <3>2, <3>7 DEF ChainCourse
    <3> QED
      BY <3>2, <3>8
  <2> QED
    BY <2>1, <2>2
<1> QED
  <2>1. ~Dynamic' => \A t \in Slots : \A i \in 1 .. call'.stages :
                       Over(t, i)' /\ RunsBody(t, i)' => <<i, t>> \in ended'
    BY <1>3, <1>6
  <2>2. Dynamic' => \A t \in Slots : \A i \in 1 .. call'.stages :
                       Over(t, i)' => claimed'[i] >= call'.blocks
    BY <1>3, <1>7
  <2>3. \A t \in Slots : \A j \in 1 .. call'.stages : Reached(t, j)' => Passed(t, j)'
    BY <1>3, <1>8
  <2>4. \A t \in Slots : \A j \in 1 .. call'.stages - 1 :
          call'.barriers[j] = "all" /\ Entered(t, j + 1)' => \A r \in Slots : Passed(r, j)'
    BY <1>3, <1>9
  <2>5. \A t \in Slots \ {0} : \A k \in 2 .. call'.stages :
          Behind(k)' = "serial" /\ Entered(t, k)' => Passed(0, k)'
    BY <1>3, <1>10
  <2>6. Dynamic' => \A t \in Slots : pc'[t] \in {"body", "flag"} /\ Behind(at[t])' = "serial" => t = 0
    BY <1>3, <1>11 DEF Behind
  <2> QED
    BY <2>1, <2>2, <2>3, <2>4, <2>5, <2>6 DEF ChainCourse, Over, RunsBody, Reached, Passed, Entered,
       Behind

LEMMA ChainKept ==
  ASSUME CommonInv, ChainInv, NEW s \in Slots, ChainSlot(s)
  PROVE  ChainInv'
BY ChainPlacesKept, ChainBeganKept, ChainCourseKept DEF ChainInv

LEMMA ChainOpens ==
  ASSUME CommonInv, OpenCall
  PROVE  ChainInv'
<1> SUFFICES ASSUME Kind' = "chain" PROVE ChainInv'
  BY DEF ChainInv
<1>1. /\ CommonInv' /\ call' # NoCall
      /\ began' = {} /\ ended' = {} /\ job' = Slots
      /\ \A s \in Slots : pc'[s] = "idle" /\ at'[s] = 0
      /\ \A s \in Slots : \A j \in Nat \ {0} : ~Reached(s, j)'
  BY OpenKeeps
<1>2. call'.stages \in Nat \ {0} /\ call'.blocks \in Nat /\ 0 \in Slots
  BY <1>1, OpenKeeps, StagedAssumption DEF IsCall, Kind, StagedAssumption
<1>3. claimed' = [i \in 1 .. call'.stages |-> 0]
  BY DEF OpenCall, Open, ChainOpen
<1>4. ChainPlaces'
  BY <1>1 DEF ChainPlaces
<1>5. ChainCourse'
  <2>1. \A s \in Slots : \A i \in 1 .. call'.stages :
          ~Entered(s, i)' /\ ~Over(s, i)' /\ ~Reached(s, i)'
    BY <1>1, <1>2 DEF Entered, Over
  <2>2. \A s \in Slots : \A j \in 1 .. call'.stages - 1 : ~Entered(s, j + 1)'
    BY <1>1, <1>2 DEF Entered
  <2>3. \A s \in Slots : \A k \in 2 .. call'.stages : ~Entered(s, k)'
    BY <1>1, <1>2 DEF Entered
  <2> QED
    BY <1>1, <2>1, <2>2, <2>3 DEF ChainCourse
<1>6. BeganStatic' /\ BeganDynamic'
  BY <1>1, <1>2, <1>3 DEF BeganStatic, BeganDynamic
<1> QED
  BY <1>4, <1>5, <1>6 DEF ChainInv

(* When all slots are out and none has given up, nothing is left. *)
LEMMA ChainDone ==
  ASSUME CommonInv, ChainInv, Kind = "chain", Through, ~cancelled
  PROVE  UnitsOf(Current) \subseteq ended
<1>1. /\ ChainPlaces /\ ChainCourse /\ (~Dynamic => BeganStatic) /\ (Dynamic => BeganDynamic)
  BY DEF ChainInv
<1>2. /\ call.stages \in Nat \ {0} /\ call.blocks \in Nat /\ 0 \in Slots
      /\ UnitsOf(Current) = ChainUnits(call)
  BY InChain
<1>3. \A s \in Slots : s \notin job /\ pc[s] = "out" /\ at[s] = call.stages
  BY <1>1 DEF Through, At, ChainPlaces
<1>4. \A s \in Slots : \A i \in 1 .. call.stages : Over(s, i)
  BY <1>2, <1>3 DEF Over
<1>5. ASSUME NEW u \in ChainUnits(call), ~Dynamic
      PROVE  u \in ended
  <2>1. /\ u = <<u[1], u[2]>> /\ u[1] \in 1 .. call.stages /\ u[2] \in Slots
        /\ RunsBody(u[2], u[1])
    BY <1>2, <1>5, ChainUnit DEF SharesOf, RunsBody, Behind, Dynamic
  <2>2. <<u[1], u[2]>> \in ended
    BY <1>1, <1>4, <1>5, <2>1 DEF ChainCourse
  <2> QED
    BY <2>1, <2>2
<1>6. ASSUME NEW u \in ChainUnits(call), Dynamic
      PROVE  u \in ended
  <2>1. u = <<u[1], u[2]>> /\ u[1] \in 1 .. call.stages /\ u[2] \in 0 .. call.blocks - 1
    BY <1>2, <1>6, ChainUnit DEF SharesOf, Dynamic
  <2>2. claimed[u[1]] >= call.blocks /\ claimed[u[1]] \in Nat
    BY <1>1, <1>2, <1>4, <1>6, <2>1 DEF ChainCourse, BeganDynamic
  <2>3. u \in began
    BY <1>1, <1>2, <1>6, <2>1, <2>2 DEF BeganDynamic
  <2> QED
    BY <1>3, <2>3 DEF CommonInv, HistInv, ExcInv, Runs
<1> QED
  BY <1>2, <1>5, <1>6

-----------------------------------------------------------------------------
(***************************************************************************)
(* runPlex.  Slot 0 runs the hook of a phase, publishes it, runs its slice *)
(* and waits for the others; a worker runs its slice when it is published. *)
(***************************************************************************)
InHook  == pc[0] \in {"body", "flag"} /\ item[0][2] = Hook
InSlice == pc[0] \in {"body", "flag"} /\ item[0][2] = 0

(* The hook of a phase, a slot's slice of it are behind their slot. *)
HookPast(i)     == at[0] > i \/ (at[0] = i /\ (InSlice \/ pc[0] \in {"publish", "stamp", "join", "out"}))
SlicePast(s, i) == at[s] > i \/ (at[s] = i /\ pc[s] \in {"stamp", "join", "out"})

PlexPlaces ==
  \A s \in Slots \ job :
    /\ at[s] \in 1 .. call.stages
    /\ s # 0 => pc[s] \in {"wait", "body", "flag", "bail", "stamp", "out"}
    /\ s = 0 => pc[s] \in {"wait", "body", "flag", "publish", "leave", "stamp", "join", "last", "out"}
    /\ pc[s] \in {"body", "flag"} => item[s] = <<at[s], s>> \/ (s = 0 /\ item[s] = <<at[s], Hook>>)
    /\ pc[s] \in {"bail", "leave", "last"} => cancelled
    /\ pc[s] = "out" /\ ~cancelled => at[s] = call.stages

PlexBegan ==
  /\ \A u \in began : /\ u[1] \in 1 .. call.stages /\ u[2] \in Slots \union {Hook}
                      /\ u = <<u[1], u[2]>>
                      /\ Entered(IF u[2] = Hook THEN 0 ELSE u[2], u[1])
  /\ InHook \/ pc[0] = "publish" => <<at[0], 0>> \notin began

(* A hook has everything before it completed, also when it is over and the *)
(* phase is about to be published.                                         *)
PlexReady ==
  /\ InHook \/ pc[0] = "publish" => \A v \in PlexUnits(call) : v[1] < at[0] => v \in ended
  /\ pc[0] = "publish" => <<at[0], Hook>> \in ended

PlexCourse ==
  ~cancelled =>
    /\ \A i \in 1 .. call.stages : HookPast(i) => <<i, Hook>> \in ended
    /\ \A s \in Slots : \A i \in 1 .. call.stages : SlicePast(s, i) => <<i, s>> \in ended
    /\ \A s \in Slots \ {0} : \A j \in 1 .. call.stages : Reached(s, j) => Passed(s, j)
    /\ \A i \in 1 .. call.stages : Passed(0, i) => \A t \in Slots \ {0} : Passed(t, i)
    /\ phase >= 1 => HookPast(phase)

PlexInv ==
  Kind = "plex" => /\ phase \in 0 .. call.stages
                   /\ PlexPlaces /\ PlexBegan /\ PlexReady /\ PlexCourse

(* What the proofs about a plex take from CommonInv. *)
LEMMA InPlex ==
  ASSUME CommonInv, Kind = "plex"
  PROVE  /\ call # NoCall /\ call.kind = "plex" /\ Line = "plex"
         /\ call.stages \in Nat \ {0}
         /\ Interval(call) = call.stages + 1 /\ Stages = call.stages
         /\ UnitsOf(Current) = PlexUnits(call)
         /\ \A u : /\ NeedsOf(Current, u) = PlexNeeds(call, u)
                   /\ AfterOf(Current, u) = {}
         /\ pc \in [Slots -> Resting \union {"idle", "body", "flag"}]
         /\ at \in [Slots -> Nat] /\ item \in [Slots -> Int \X Int]
         /\ done \in [Lines -> [Slots -> Nat]] /\ epochBase \in Nat
         /\ "plex" \in Lines
         /\ cancelled \in BOOLEAN /\ stopped \in BOOLEAN
         /\ 0 \in Slots /\ Hook \notin Slots /\ Hook # 0 /\ Slots \subseteq Nat
         /\ \A s \in Slots : s \in job <=> pc[s] = "idle"
         /\ \A s \in Slots : pc[s] = "idle" => at[s] = 0
<1>1. call # NoCall /\ call.kind = "plex" /\ IsCall(call)
  BY AtHand DEF Kind, CommonInv
<1>2. Current.of = call
  BY DEF Current, Plan
<1>3. Stages = call.stages /\ call.stages \in Nat
  BY <1>1 DEF Stages, IsCall
<1>4. at \in [Slots -> Nat] /\ epochBase \in Nat
  BY <1>3, StagedAssumption DEF CommonInv, TypeInv, StagedAssumption
<1>5. 0 \in Slots /\ Hook \notin Slots /\ Hook # 0 /\ Slots \subseteq Nat
  BY StagedAssumption DEF StagedAssumption, Hook
<1>6. /\ UnitsOf(Current) = PlexUnits(call)
      /\ \A u : NeedsOf(Current, u) = PlexNeeds(call, u) /\ AfterOf(Current, u) = {}
  BY <1>1, <1>2 DEF UnitsOf, NeedsOf, AfterOf
<1> QED
  BY <1>1, <1>3, <1>4, <1>5, <1>6
  DEF Line, Kind, IsCall, Interval, CommonInv, TypeInv, Lines, ShareInv

LEMMA PlexUnit ==
  ASSUME NEW c, NEW u
  PROVE  u \in PlexUnits(c) <=> /\ u = <<u[1], u[2]>>
                                /\ u[1] \in 1 .. c.stages /\ u[2] \in Slots \union {Hook}
BY DEF PlexUnits

(* What is behind slot 0 is completed: it builds on it for the next phase, *)
LEMMA BehindPlex ==
  ASSUME CommonInv, Kind = "plex", PlexPlaces, PlexCourse, ~cancelled,
         NEW i \in 1 .. call.stages, Passed(0, i)
  PROVE  \A v \in PlexUnits(call) : v[1] = i => v \in ended
<1>1. /\ at \in [Slots -> Nat] /\ 0 \in Slots
      /\ \A t \in Slots \ {0} : Passed(t, i)
  BY InPlex DEF PlexCourse
<1>2. HookPast(i) /\ \A t \in Slots : SlicePast(t, i)
  BY <1>1 DEF Passed, HookPast, SlicePast
<1>3. <<i, Hook>> \in ended /\ \A t \in Slots : <<i, t>> \in ended
  BY <1>2 DEF PlexCourse
<1> QED
  BY <1>3, PlexUnit

(* and a worker for its slice of the phase that is published. *)
LEMMA SliceReady ==
  ASSUME CommonInv, Kind = "plex", PlexPlaces, PlexCourse, ~cancelled, phase \in Nat,
         NEW s \in Slots, NEW p \in 1 .. call.stages, phase >= p, phase \in 0 .. call.stages
  PROVE  /\ <<p, Hook>> \in ended
         /\ \A v \in PlexUnits(call) : v[1] < p => v \in ended
<1>1. /\ at \in [Slots -> Nat] /\ 0 \in Slots /\ call.stages \in Nat
  BY InPlex
<1>2. HookPast(phase)
  BY DEF PlexCourse
<1>3. at[0] > p \/ HookPast(p)
  BY <1>1, <1>2 DEF HookPast
<1>4. HookPast(p) /\ at[0] >= p
  BY <1>1, <1>3 DEF HookPast
<1>5. ASSUME NEW v \in PlexUnits(call), v[1] < p
      PROVE  v \in ended
  <2>1. v[1] \in 1 .. call.stages
    BY PlexUnit
  <2>2. Passed(0, v[1])
    BY <1>1, <1>4, <1>5, <2>1 DEF Passed
  <2> QED
    BY <2>1, <2>2, BehindPlex
<1> QED
  BY <1>4, <1>5 DEF PlexCourse

(* Every action of a plex's slot is a step of a slot. *)
LEMMA PlexSteps ==
  ASSUME CommonInv, PlexInv, NEW s \in Slots, PlexSlot(s)
  PROVE  SlotStep(s)
<1>1. Kind = "plex" /\ phase \in 0 .. call.stages /\ PlexPlaces /\ PlexBegan /\ PlexReady /\ PlexCourse
  BY DEF PlexSlot, PlexInv
<1>2. /\ call # NoCall /\ call.stages \in Nat \ {0}
      /\ Interval(call) = call.stages + 1 /\ Stages = call.stages
      /\ UnitsOf(Current) = PlexUnits(call)
      /\ \A u : /\ NeedsOf(Current, u) = PlexNeeds(call, u)
                /\ AfterOf(Current, u) = {}
      /\ pc \in [Slots -> Resting \union {"idle", "body", "flag"}]
      /\ at \in [Slots -> Nat] /\ 0 \in Slots /\ Hook \notin Slots
      /\ cancelled \in BOOLEAN /\ stopped \in BOOLEAN
      /\ \A t \in Slots : t \in job <=> pc[t] = "idle"
  BY <1>1, InPlex
<1>3. pc[s] # "idle" => at[s] \in 1 .. call.stages
  BY <1>1, <1>2 DEF PlexPlaces
<1>4. at = [at EXCEPT ![s] = at[s]]
  BY <1>2
<1>5. CASE PlexBegin(s)
  BY <1>2, <1>5 DEF PlexBegin, SlotStep, Begins
<1>6. CASE NextPhase(s)
  <2>1. s = 0 /\ pc[0] = "wait" /\ at[0] \in 1 .. call.stages
    BY <1>3, <1>6 DEF NextPhase, At
  <2>2. CASE Cancelling
    <3>1. Moves(s)
      BY <1>2, <1>4, <1>6, <2>1, <2>2 DEF NextPhase, RunOrLeave, Moves, Goto, Resting, poolVars, history, Cancelling
    <3> QED
      BY <1>2, <3>1 DEF SlotStep
  <2>3. CASE ~Cancelling
    <3> DEFINE u == <<at[0], Hook>>
    <3>1. /\ Run(s, u) /\ cancelled' = cancelled /\ ~cancelled
          /\ UNCHANGED <<poolVars, at, done, exc, stopped>>
      BY <1>2, <1>6, <2>1, <2>3 DEF NextPhase, RunOrLeave, Cancelling
    <3>2. u \in PlexUnits(call)
      BY <2>1, PlexUnit
    <3>3. PlexNeeds(call, u) \subseteq ended
      <4>1. \A v \in PlexNeeds(call, u) : v \in PlexUnits(call) /\ v[1] < at[0]
        BY DEF PlexNeeds
      <4>2. ASSUME NEW v \in PlexUnits(call), v[1] < at[0]
            PROVE  v \in ended
        <5>1. v[1] \in 1 .. call.stages
          BY PlexUnit
        <5>2. Passed(0, v[1])
          BY <1>2, <4>2, <5>1 DEF Passed
        <5> QED
          BY <1>1, <3>1, <5>1, <5>2, BehindPlex
      <4> QED
        BY <4>1, <4>2
    <3>4. u \notin began
      BY <1>1, <1>2, <2>1 DEF PlexBegan, Entered
    <3>5. Starts(s, u)
      BY <1>2, <2>1, <3>1, <3>2, <3>3, <3>4 DEF Starts, Resting
    <3> QED
      BY <1>2, <3>5 DEF SlotStep
  <2> QED
    BY <2>2, <2>3
<1>7. CASE PublishPhase(s)
  <2>1. s = 0 /\ pc[0] = "publish" /\ at[0] \in 1 .. call.stages
    BY <1>1, <1>2, <1>3, <1>7 DEF PublishPhase, At, PlexPlaces
  <2> DEFINE u == <<at[0], 0>>
  <2>2. Run(s, u) /\ UNCHANGED <<poolVars, at, done, cancelled, exc, stopped>>
    BY <1>7, <2>1 DEF PublishPhase
  <2>3. u \in PlexUnits(call) /\ u \notin began
    BY <1>1, <1>2, <2>1, PlexUnit DEF PlexBegan
  <2>4. PlexNeeds(call, u) \subseteq ended
    BY <1>1, <2>1 DEF PlexNeeds, PlexReady
  <2>5. Starts(s, u)
    BY <1>2, <2>1, <2>2, <2>3, <2>4 DEF Starts, Resting
  <2> QED
    BY <1>2, <2>5 DEF SlotStep
<1>8. CASE TakePhase(s)
  <2>1. /\ s # 0 /\ pc[s] = "wait" /\ at[s] \in 1 .. call.stages /\ phase >= at[s] /\ ~cancelled
        /\ phase \in Nat
    BY <1>1, <1>2, <1>3, <1>8 DEF TakePhase, At
  <2> DEFINE u == <<at[s], s>>
  <2>2. Run(s, u) /\ UNCHANGED <<poolVars, at, done, cancelled, exc, stopped>>
    BY <1>8 DEF TakePhase
  <2>3. u \in PlexUnits(call)
    BY <2>1, PlexUnit
  <2>4. u \notin began
    BY <1>1, <1>2, <2>1 DEF PlexBegan, Entered
  <2>5. PlexNeeds(call, u) \subseteq ended
    <3>1. /\ <<at[s], Hook>> \in ended
          /\ \A v \in PlexUnits(call) : v[1] < at[s] => v \in ended
      BY <1>1, <2>1, SliceReady
    <3> QED
      BY <3>1 DEF PlexNeeds
  <2>6. Starts(s, u)
    BY <1>2, <2>1, <2>2, <2>3, <2>4, <2>5 DEF Starts, Resting
  <2> QED
    BY <1>2, <2>6 DEF SlotStep
<1>9. CASE LeavePlex(s) \/ SliceStamp(s) \/ PlexJoin(s) \/ LastJoin(s) \/ GiveUp(s) \/ PlexBail(s)
  <2>1. pc[s] # "idle" /\ pc[s] \in Resting
    BY <1>9 DEF LeavePlex, SliceStamp, PlexJoin, LastJoin, GiveUp, PlexBail, At, Resting
  <2>2. at[s] \in 1 .. call.stages
    BY <1>3, <2>1
  <2>3. at' = [at EXCEPT ![s] = at'[s]] /\ at'[s] \in 0 .. Stages
    <3>1. CASE at' = at
      BY <1>2, <1>4, <2>2, <3>1
    <3>2. CASE SliceStamp(s) \/ PlexJoin(s)
      BY <1>2, <2>2, <3>2 DEF SliceStamp, PlexJoin
    <3> QED
      BY <1>9, <3>1, <3>2 DEF LeavePlex, LastJoin, GiveUp, PlexBail, Go, StampAndGo
  <2>4. \E q \in Resting : Goto(s, q)
    BY <1>9 DEF LeavePlex, SliceStamp, PlexJoin, LastJoin, GiveUp, PlexBail, Go, StampAndGo, Resting
  <2>5. done' = done \/ \E x \in 0 .. Interval(call) : Stamp(s, x)
    BY <1>2, <1>9, <2>2 DEF LeavePlex, SliceStamp, PlexJoin, LastJoin, GiveUp, PlexBail, Go,
       StampAndGo, FinalStamp
  <2>6. cancelled' = cancelled /\ UNCHANGED <<poolVars, item, exc, stopped, history>>
    BY <1>9 DEF LeavePlex, SliceStamp, PlexJoin, LastJoin, GiveUp, PlexBail, Go, StampAndGo
  <2>7. Moves(s)
    BY <2>1, <2>3, <2>4, <2>5, <2>6 DEF Moves
  <2> QED
    BY <1>2, <2>7 DEF SlotStep
<1>10. CASE HookOver(s) \/ SliceOver(s) \/ PlexThrow(s) \/ PlexFlag(s)
  BY <1>2, <1>10 DEF HookOver, SliceOver, PlexThrow, PlexFlag, SlotStep, Ends, Flags, Resting
<1> QED
  BY <1>5, <1>6, <1>7, <1>8, <1>9, <1>10 DEF PlexSlot

(* As long as nobody gives up, a slot goes its way phase by phase. *)
LEMMA PlexWay ==
  ASSUME CommonInv, PlexInv, NEW s \in Slots, PlexSlot(s), ~cancelled'
  PROVE  \/ /\ pc[s] = "idle" /\ at[s] = 0 /\ pc'[s] = "wait" /\ at'[s] = 1
         \/ /\ s = 0 /\ pc[s] = "wait" /\ pc'[s] = "body" /\ at'[s] = at[s]
            /\ item'[s] = <<at[s], Hook>>
         \/ /\ s = 0 /\ pc[s] = "body" /\ item[s] = <<at[s], Hook>> /\ HookOver(s)
            /\ pc'[s] = "publish" /\ at'[s] = at[s]
         \/ /\ s = 0 /\ pc[s] = "publish" /\ pc'[s] = "body" /\ at'[s] = at[s]
            /\ item'[s] = <<at[s], s>>
         \/ /\ s # 0 /\ pc[s] = "wait" /\ pc'[s] = "body" /\ at'[s] = at[s]
            /\ item'[s] = <<at[s], s>>
         \/ /\ pc[s] = "body" /\ item[s] = <<at[s], s>> /\ SliceOver(s)
            /\ pc'[s] = "stamp" /\ at'[s] = at[s]
         \/ /\ pc[s] = "body" /\ pc'[s] = "flag" /\ at'[s] = at[s] /\ item'[s] = item[s]
         \/ /\ s = 0 /\ pc[s] = "stamp" /\ pc'[s] = "join" /\ at'[s] = at[s]
         \/ /\ IF s = 0 THEN pc[s] = "join" /\ PlexJoin(s) ELSE pc[s] = "stamp" /\ SliceStamp(s)
            /\ \/ pc'[s] = "out" /\ at'[s] = at[s]
               \/ pc'[s] = "wait" /\ at'[s] = at[s] + 1
<1>1. Kind = "plex" /\ PlexPlaces /\ SlotStep(s)
  BY PlexSteps DEF PlexSlot, PlexInv
<1>2. /\ call.stages \in Nat \ {0}
      /\ pc \in [Slots -> Resting \union {"idle", "body", "flag"}]
      /\ at \in [Slots -> Nat] /\ item \in [Slots -> Int \X Int]
      /\ 0 \in Slots /\ Hook \notin Slots /\ Hook # 0
      /\ cancelled \in BOOLEAN /\ stopped \in BOOLEAN
      /\ \A t \in Slots : t \in job <=> pc[t] = "idle"
      /\ \A t \in Slots : pc[t] = "idle" => at[t] = 0
  BY <1>1, InPlex
<1>3. ~cancelled
  BY <1>1, OthersKeep
<1>4. pc[s] # "idle" =>
        /\ at[s] \in 1 .. call.stages
        /\ pc[s] \notin {"bail", "leave", "last"}
        /\ pc[s] \in {"body", "flag"} => item[s] = <<at[s], s>> \/ (s = 0 /\ item[s] = <<at[s], Hook>>)
  BY <1>1, <1>2, <1>3 DEF PlexPlaces
<1>5. CASE PlexBegin(s)
  BY <1>2, <1>5 DEF PlexBegin, Begin, Goto
<1>6. CASE NextPhase(s)
  BY <1>2, <1>6 DEF NextPhase, RunOrLeave, Run, Goto, At, Cancelling
<1>7. CASE HookOver(s)
  BY <1>2, <1>4, <1>7 DEF HookOver, Complete, Goto, At
<1>8. CASE PublishPhase(s)
  <2>1. s = 0
    BY <1>1, <1>2, <1>8 DEF PublishPhase, At, PlexPlaces
  <2> QED
    BY <1>2, <1>8, <2>1 DEF PublishPhase, Run, Goto, At
<1>9. CASE SliceOver(s)
  BY <1>2, <1>4, <1>9 DEF SliceOver, Complete, Goto, At
<1>10. CASE PlexThrow(s)
  BY <1>2, <1>10 DEF PlexThrow, Throw, Goto, At
<1>11. CASE SliceStamp(s) /\ s = 0
  <2>1. ~Failed(s)
    <3> SUFFICES ASSUME <<at[0], 0>> \in failed PROVE FALSE
      BY <1>11 DEF Failed
    <3>1. PICK t \in Slots : pc[t] = "flag" /\ item[t] = <<at[0], 0>>
      BY <1>1, <1>3 DEF CommonInv, ExcInv
    <3>2. t # 0
      BY <1>11, <3>1 DEF SliceStamp, At
    <3>3. item[t] = <<at[t], t>>
      BY <1>1, <1>2, <3>1, <3>2 DEF PlexPlaces
    <3> QED
      BY <3>1, <3>2, <3>3
  <2> QED
    BY <1>2, <1>11, <2>1 DEF SliceStamp, Goto, At
<1>12. CASE SliceStamp(s) /\ s # 0
  BY <1>2, <1>4, <1>12, SMTT(30) DEF SliceStamp, Goto, At
<1>13. CASE PlexJoin(s)
  <2>1. s = 0
    BY <1>1, <1>2, <1>13 DEF PlexJoin, At, PlexPlaces
  <2> QED
    BY <1>2, <1>13, <2>1 DEF PlexJoin, Goto, At
<1>14. CASE TakePhase(s)
  BY <1>2, <1>14 DEF TakePhase, Run, Goto, At
<1>15. ~LeavePlex(s) /\ ~PlexFlag(s) /\ ~LastJoin(s) /\ ~GiveUp(s) /\ ~PlexBail(s)
  BY <1>2, <1>3, <1>4 DEF LeavePlex, PlexFlag, Flag, LastJoin, GiveUp, PlexBail, At
<1> QED
  BY <1>5, <1>6, <1>7, <1>8, <1>9, <1>10, <1>11, <1>12, <1>13, <1>14, <1>15 DEF PlexSlot

LEMMA PlexForward ==
  ASSUME CommonInv, PlexInv, NEW s \in Slots, PlexSlot(s), ~cancelled'
  PROVE  /\ \A t \in Slots : \A i \in 1 .. call.stages :
              /\ Passed(t, i) => Passed(t, i)'
              /\ Passed(t, i)' => \/ Passed(t, i)
                                  \/ t = s /\ i = at[s] /\ (IF s = 0 THEN PlexJoin(s) ELSE SliceStamp(s))
              /\ SlicePast(t, i)' => SlicePast(t, i) \/ (t = s /\ i = at[s] /\ SliceOver(s))
         /\ \A i \in 1 .. call.stages :
              /\ HookPast(i) => HookPast(i)'
              /\ HookPast(i)' => HookPast(i) \/ (s = 0 /\ i = at[0] /\ HookOver(s))
<1>1. Kind = "plex" /\ PlexPlaces /\ SlotStep(s)
  BY PlexSteps DEF PlexSlot, PlexInv
<1>2. at \in [Slots -> Nat] /\ 0 \in Slots /\ Hook # 0
  BY <1>1, InPlex
<1>3. \A t \in Slots \ {s} : pc'[t] = pc[t] /\ at'[t] = at[t] /\ item'[t] = item[t]
  BY <1>1, OthersKeep
<1>4. \A i \in 1 .. call.stages :
        /\ Passed(s, i) => Passed(s, i)'
        /\ Passed(s, i)' => \/ Passed(s, i)
                            \/ i = at[s] /\ (IF s = 0 THEN PlexJoin(s) ELSE SliceStamp(s))
        /\ SlicePast(s, i)' => SlicePast(s, i) \/ (i = at[s] /\ SliceOver(s))
  BY <1>2, PlexWay DEF Passed, SlicePast
<1>5. \A t \in Slots \ {s} : \A i \in 1 .. call.stages :
        /\ Passed(t, i) <=> Passed(t, i)'
        /\ SlicePast(t, i) <=> SlicePast(t, i)'
  BY <1>3 DEF Passed, SlicePast
<1>6. ASSUME s # 0
      PROVE  \A i \in 1 .. call.stages : HookPast(i) <=> HookPast(i)'
  BY <1>2, <1>3, <1>6 DEF HookPast, InSlice
<1>7. ASSUME s = 0
      PROVE  \A i \in 1 .. call.stages :
               /\ HookPast(i) => HookPast(i)'
               /\ HookPast(i)' => HookPast(i) \/ (i = at[0] /\ HookOver(s))
  BY <1>2, <1>7, PlexWay DEF HookPast, InSlice
<1> QED
  BY <1>4, <1>5, <1>6, <1>7

(* Where a slot goes on, also when it gives up. *)
LEMMA PlexPlacesKept ==
  ASSUME CommonInv, PlexInv, NEW s \in Slots, PlexSlot(s)
  PROVE  /\ PlexPlaces'
         /\ \A t \in Slots : \A i \in 1 .. call.stages : Entered(t, i) => Entered(t, i)'
<1>1. Kind = "plex" /\ PlexPlaces /\ SlotStep(s)
  BY PlexSteps DEF PlexSlot, PlexInv
<1>2. /\ call.stages \in Nat \ {0}
      /\ pc \in [Slots -> Resting \union {"idle", "body", "flag"}]
      /\ at \in [Slots -> Nat] /\ item \in [Slots -> Int \X Int]
      /\ 0 \in Slots /\ Hook \notin Slots /\ Hook # 0
      /\ cancelled \in BOOLEAN /\ stopped \in BOOLEAN
      /\ \A t \in Slots : t \in job <=> pc[t] = "idle"
      /\ \A t \in Slots : pc[t] = "idle" => at[t] = 0
  BY <1>1, InPlex
<1>3. /\ call' = call /\ (cancelled => cancelled')
      /\ \A t \in Slots \ {s} : /\ pc'[t] = pc[t] /\ at'[t] = at[t] /\ item'[t] = item[t]
                                /\ t \in job' <=> t \in job
  BY <1>1, OthersKeep
<1> DEFINE Fits(t) ==
      /\ at[t] \in 1 .. call.stages
      /\ t # 0 => pc[t] \in {"wait", "body", "flag", "bail", "stamp", "out"}
      /\ t = 0 => pc[t] \in {"wait", "body", "flag", "publish", "leave", "stamp", "join", "last", "out"}
      /\ pc[t] \in {"body", "flag"} => item[t] = <<at[t], t>> \/ (t = 0 /\ item[t] = <<at[t], Hook>>)
      /\ pc[t] \in {"bail", "leave", "last"} => cancelled
      /\ pc[t] = "out" /\ ~cancelled => at[t] = call.stages
<1>4. \A t \in Slots \ job : Fits(t)
  BY <1>1 DEF PlexPlaces
<1>5. \A t \in Slots \ {s} : t \notin job' => Fits(t)'
  BY <1>3, <1>4
<1>6. /\ Fits(s)'
      /\ \A i \in 1 .. call.stages : Entered(s, i) => Entered(s, i)'
  <2>1. CASE PlexBegin(s)
    BY <1>2, <1>3, <2>1 DEF PlexBegin, Begin, Goto, Entered
  <2>2. CASE ~PlexBegin(s)
    <3>1. Fits(s) /\ pc[s] # "idle"
      <4>1. pc[s] # "idle"
        BY <2>2 DEF PlexSlot, NextPhase, HookOver, PublishPhase, LeavePlex, SliceOver, PlexThrow,
           PlexFlag, SliceStamp, PlexJoin, LastJoin, TakePhase, GiveUp, PlexBail, Complete, Throw, Flag, At
      <4> QED
        BY <1>2, <1>4, <4>1
    <3>2. CASE NextPhase(s)
      BY <1>2, <1>3, <3>1, <3>2 DEF NextPhase, RunOrLeave, Run, Goto, At, Cancelling, Entered
    <3>3. CASE HookOver(s)
      BY <1>2, <1>3, <3>1, <3>3 DEF HookOver, Complete, Goto, At, Entered
    <3>4. CASE PublishPhase(s)
      BY <1>2, <1>3, <3>1, <3>4 DEF PublishPhase, Run, Goto, At, Entered
    <3>5. CASE LeavePlex(s)
      BY <1>2, <1>3, <3>1, <3>5 DEF LeavePlex, Goto, At, Entered
    <3>6. CASE SliceOver(s)
      BY <1>2, <1>3, <3>1, <3>6 DEF SliceOver, Complete, Goto, At, Entered
    <3>7. CASE PlexThrow(s)
      BY <1>2, <1>3, <3>1, <3>7 DEF PlexThrow, Throw, Goto, At, Entered
    <3>8. CASE PlexFlag(s)
      BY <1>2, <1>3, <3>1, <3>8 DEF PlexFlag, Flag, Goto, At, Entered
    <3>9. CASE SliceStamp(s)
      <4>1. s = 0 /\ Failed(s) => cancelled
        <5> SUFFICES ASSUME s = 0, <<at[0], 0>> \in failed, ~cancelled PROVE FALSE
          BY <1>2 DEF Failed
        <5>1. PICK t \in Slots : pc[t] = "flag" /\ item[t] = <<at[0], 0>>
          BY <1>1 DEF CommonInv, ExcInv
        <5>2. t # 0
          BY <3>9, <5>1 DEF SliceStamp, At
        <5>3. item[t] = <<at[t], t>>
          BY <1>1, <1>2, <5>1, <5>2 DEF PlexPlaces
        <5> QED
          BY <5>1, <5>2, <5>3
      <4>2. pc[s] = "stamp" /\ cancelled' = cancelled
        BY <3>9 DEF SliceStamp, At
      <4>3. \/ s = 0 /\ Failed(s) /\ pc'[s] = "last" /\ at'[s] = at[s]
            \/ s = 0 /\ pc'[s] = "join" /\ at'[s] = at[s]
            \/ s # 0 /\ pc'[s] = "out" /\ at'[s] = at[s] /\ at[s] = call.stages
            \/ s # 0 /\ pc'[s] = "wait" /\ at'[s] = at[s] + 1 /\ at[s] < call.stages
        BY <1>2, <3>1, <3>9, SMTT(30) DEF SliceStamp, Goto
      <4>4. item' = item /\ at[s] \in Nat /\ call.stages \in Nat
        BY <1>2, <3>9 DEF SliceStamp
      <4>5. CASE s # 0 /\ pc'[s] = "wait" /\ at'[s] = at[s] + 1 /\ at[s] < call.stages
        BY <1>2, <1>3, <3>1, <4>2, <4>3, <4>4, <4>5 DEF Entered
      <4>6. CASE s = 0 /\ Failed(s) /\ pc'[s] = "last" /\ at'[s] = at[s]
        <5>1. cancelled'
          BY <4>1, <4>2, <4>6
        <5> QED
          BY <1>3, <3>1, <4>2, <4>4, <4>6, <5>1 DEF Entered
      <4>7. CASE s = 0 /\ pc'[s] = "join" /\ at'[s] = at[s]
        BY <1>3, <3>1, <4>2, <4>4, <4>7 DEF Entered
      <4>8. CASE s # 0 /\ pc'[s] = "out" /\ at'[s] = at[s] /\ at[s] = call.stages
        <5>1. Fits(s)'
          BY <1>3, <3>1, <4>2, <4>4, <4>8
        <5>2. \A i \in 1 .. call.stages : Entered(s, i) => Entered(s, i)'
          BY <4>2, <4>4, <4>8 DEF Entered
        <5> QED
          BY <5>1, <5>2
      <4> QED
        BY <4>3, <4>5, <4>6, <4>7, <4>8
    <3>10. CASE PlexJoin(s)
      <4>1. /\ pc[s] = "join" /\ cancelled' = cancelled /\ item' = item
            /\ at[s] \in Nat /\ call.stages \in Nat
        BY <1>2, <3>10 DEF PlexJoin, At
      <4>2. s = 0
        BY <3>1, <4>1
      <4>3. \/ pc'[s] = "out" /\ at'[s] = at[s] /\ at[s] = call.stages
            \/ pc'[s] = "wait" /\ at'[s] = at[s] + 1 /\ at[s] # call.stages
        BY <1>2, <3>10 DEF PlexJoin, Goto
      <4>4. CASE pc'[s] = "out" /\ at'[s] = at[s] /\ at[s] = call.stages
        BY <1>3, <3>1, <4>1, <4>2, <4>4 DEF Entered
      <4>5. CASE pc'[s] = "wait" /\ at'[s] = at[s] + 1 /\ at[s] # call.stages
        BY <1>3, <3>1, <4>1, <4>2, <4>5 DEF Entered
      <4> QED
        BY <4>3, <4>4, <4>5
    <3>11. CASE LastJoin(s)
      BY <1>2, <1>3, <3>1, <3>11 DEF LastJoin, Go, Goto, At, Entered
    <3>12. CASE TakePhase(s)
      BY <1>2, <1>3, <3>1, <3>12 DEF TakePhase, Run, Goto, At, Entered
    <3>13. CASE GiveUp(s)
      BY <1>2, <1>3, <3>1, <3>13 DEF GiveUp, Go, Goto, At, Entered
    <3>14. CASE PlexBail(s)
      BY <1>2, <1>3, <3>1, <3>14 DEF PlexBail, StampAndGo, Goto, At, Entered
    <3> QED
      BY <2>2, <3>2, <3>3, <3>4, <3>5, <3>6, <3>7, <3>8, <3>9, <3>10, <3>11, <3>12, <3>13, <3>14 DEF PlexSlot
  <2> QED
    BY <2>1, <2>2
<1>7. \A t \in Slots \ {s} : \A i \in 1 .. call.stages : Entered(t, i) => Entered(t, i)'
  BY <1>3 DEF Entered
<1> QED
  BY <1>5, <1>6, <1>7 DEF PlexPlaces

LEMMA PlexBeganKept ==
  ASSUME CommonInv, PlexInv, NEW s \in Slots, PlexSlot(s)
  PROVE  PlexBegan' /\ PlexReady' /\ phase' \in 0 .. call'.stages
<1>1. /\ Kind = "plex" /\ phase \in 0 .. call.stages /\ PlexPlaces /\ PlexBegan /\ PlexReady
      /\ PlexCourse /\ SlotStep(s)
  BY PlexSteps DEF PlexSlot, PlexInv
<1>2. /\ call.stages \in Nat \ {0}
      /\ pc \in [Slots -> Resting \union {"idle", "body", "flag"}]
      /\ at \in [Slots -> Nat] /\ item \in [Slots -> Int \X Int]
      /\ 0 \in Slots /\ Hook \notin Slots /\ Hook # 0
      /\ cancelled \in BOOLEAN /\ stopped \in BOOLEAN
      /\ \A t \in Slots : t \in job <=> pc[t] = "idle"
      /\ \A t \in Slots : pc[t] = "idle" => at[t] = 0
  BY <1>1, InPlex
<1>3. /\ call' = call /\ ended \subseteq ended'
      /\ \A t \in Slots \ {s} : pc'[t] = pc[t] /\ at'[t] = at[t] /\ item'[t] = item[t]
  BY <1>1, OthersKeep
<1>4. \A t \in Slots : \A i \in 1 .. call.stages : Entered(t, i) => Entered(t, i)'
  BY PlexPlacesKept
<1>5. pc[s] # "idle" => at[s] \in 1 .. call.stages
  BY <1>1, <1>2 DEF PlexPlaces
<1>6. \/ began' = began
      \/ /\ NextPhase(s) /\ ~Cancelling /\ s = 0 /\ pc[s] = "wait"
         /\ began' = began \union {<<at[s], Hook>>}
         /\ pc'[s] = "body" /\ at'[s] = at[s] /\ item'[s] = <<at[s], Hook>>
      \/ /\ began' = began \union {<<at[s], s>>} /\ pc[s] # "idle"
         /\ pc'[s] = "body" /\ at'[s] = at[s] /\ item'[s] = <<at[s], s>>
  <2>1. CASE NextPhase(s)
    BY <1>2, <2>1 DEF NextPhase, RunOrLeave, Run, Goto, At, Cancelling, history
  <2>2. CASE PublishPhase(s) \/ TakePhase(s)
    BY <1>2, <2>2 DEF PublishPhase, TakePhase, Run, Goto, At
  <2>3. CASE ~NextPhase(s) /\ ~PublishPhase(s) /\ ~TakePhase(s)
    BY <2>3 DEF PlexSlot, PlexBegin, Begin, HookOver, LeavePlex, SliceOver, PlexThrow, PlexFlag,
       SliceStamp, PlexJoin, LastJoin, GiveUp, PlexBail, Complete, Throw, Flag, Go, StampAndGo, history
  <2> QED
    BY <2>1, <2>2, <2>3
<1> DEFINE Fits(u) == /\ u[1] \in 1 .. call.stages /\ u[2] \in Slots \union {Hook}
                      /\ u = <<u[1], u[2]>>
                      /\ Entered(IF u[2] = Hook THEN 0 ELSE u[2], u[1])
<1>7. \A u \in began : Fits(u)'
  <2> SUFFICES ASSUME NEW u \in began PROVE Fits(u)'
    OBVIOUS
  <2> DEFINE t == IF u[2] = Hook THEN 0 ELSE u[2]
  <2>1. /\ u[1] \in 1 .. call.stages /\ u[2] \in Slots \union {Hook}
        /\ u = <<u[1], u[2]>> /\ Entered(t, u[1])
    BY <1>1 DEF PlexBegan
  <2>2. t \in Slots
    BY <1>2, <2>1
  <2>3. Entered(t, u[1])'
    BY <1>4, <2>1, <2>2
  <2> QED
    BY <1>3, <2>1, <2>3 DEF Entered
<1>8. \A u \in began' \ began : Fits(u)'
  <2> SUFFICES ASSUME NEW u \in began' \ began PROVE Fits(u)'
    OBVIOUS
  <2>1. /\ u = <<at[s], s>> \/ (s = 0 /\ u = <<at[s], Hook>>)
        /\ pc'[s] = "body" /\ at'[s] = at[s] /\ pc[s] # "idle"
    BY <1>6
  <2> QED
    BY <1>2, <1>3, <1>5, <2>1 DEF Entered
<1>9. CASE s # 0
  <2>1. /\ InHook' <=> InHook
        /\ pc'[0] = pc[0] /\ at'[0] = at[0]
    BY <1>2, <1>3, <1>9 DEF InHook
  <2>2. InHook \/ pc[0] = "publish" => <<at[0], 0>> \notin began'
    BY <1>1, <1>6, <1>9 DEF PlexBegan
  <2>3. PlexReady'
    BY <1>1, <1>3, <2>1 DEF PlexReady, PlexUnits
  <2>4. phase' = phase
    BY <1>1, <1>2, <1>9 DEF PlexSlot, PlexBegin, NextPhase, HookOver, PublishPhase, LeavePlex, SliceOver,
       PlexThrow, PlexFlag, SliceStamp, PlexJoin, LastJoin, TakePhase, GiveUp, PlexBail, PlexPlaces, At
  <2> QED
    BY <1>1, <1>3, <1>7, <1>8, <2>1, <2>2, <2>3, <2>4 DEF PlexBegan, Entered
<1>10. CASE s = 0
  <2>1. \/ ~(InHook \/ pc[0] = "publish")'
        \/ NextPhase(s) /\ ~Cancelling /\ pc'[0] = "body"
        \/ HookOver(s) /\ InHook /\ item[0] = <<at[0], Hook>>
        \/ PlexThrow(s) /\ InHook /\ pc'[0] = "flag"
    <3>1. CASE NextPhase(s)
      BY <1>2, <1>10, <3>1 DEF NextPhase, RunOrLeave, Run, Goto, InHook
    <3>2. CASE HookOver(s)
      <4>1. pc[0] = "body" /\ item[0][2] = Hook /\ 0 \notin job
        BY <1>2, <1>10, <3>2 DEF HookOver, Complete, At
      <4> QED
        BY <1>1, <1>2, <3>2, <4>1 DEF PlexPlaces, InHook
    <3>3. CASE PlexThrow(s)
      BY <1>2, <1>10, <3>3 DEF PlexThrow, Throw, Goto, At, InHook
    <3>4. CASE PublishPhase(s)
      BY <1>2, <1>10, <3>4 DEF PublishPhase, Run, Goto, At, InHook
    <3>5. CASE ~NextPhase(s) /\ ~HookOver(s) /\ ~PlexThrow(s) /\ ~PublishPhase(s)
      <4>1. pc'[0] \notin {"body", "flag", "publish"}
        BY <1>2, <1>10, <3>5 DEF PlexSlot, PlexBegin, Begin, LeavePlex, SliceOver, PlexFlag,
           SliceStamp, PlexJoin, LastJoin, TakePhase, GiveUp, PlexBail, Complete, Flag, Go, StampAndGo, Goto
      <4> QED
        BY <4>1 DEF InHook
    <3> QED
      BY <3>1, <3>2, <3>3, <3>4, <3>5
  <2>2. /\ InHook' \/ pc'[0] = "publish" =>
             /\ <<at'[0], 0>> \notin began'
             /\ \A v \in PlexUnits(call) : v[1] < at'[0] => v \in ended'
        /\ pc'[0] = "publish" => <<at'[0], Hook>> \in ended'
    <3>1. CASE ~(InHook \/ pc[0] = "publish")'
      BY <3>1
    <3>2. CASE NextPhase(s) /\ ~Cancelling /\ pc'[0] = "body"
      <4>1. /\ pc[0] = "wait" /\ at' = at /\ ended' = ended /\ ~cancelled
            /\ began' = began \union {<<at[0], Hook>>}
        BY <1>2, <1>10, <3>2 DEF NextPhase, RunOrLeave, Run, At, Cancelling
      <4>2. <<at[0], 0>> \notin began
        BY <1>1, <1>2, <4>1 DEF PlexBegan, Entered
      <4>3. ASSUME NEW v \in PlexUnits(call), v[1] < at[0]
            PROVE  v \in ended
        <5>1. v[1] \in 1 .. call.stages
          BY PlexUnit
        <5>2. Passed(0, v[1])
          BY <1>2, <4>3, <5>1 DEF Passed
        <5> QED
          BY <1>1, <4>1, <5>1, <5>2, BehindPlex
      <4> QED
        BY <1>2, <3>2, <4>1, <4>2, <4>3
    <3>3. CASE HookOver(s) /\ InHook /\ item[0] = <<at[0], Hook>>
      <4>1. at' = at /\ began' = began /\ ended' = ended \union {<<at[0], Hook>>}
        BY <1>10, <3>3 DEF HookOver, Complete
      <4> QED
        BY <1>1, <3>3, <4>1 DEF PlexBegan, PlexReady
    <3>4. CASE PlexThrow(s) /\ InHook /\ pc'[0] = "flag"
      <4>1. at' = at /\ began' = began /\ ended' = ended
        BY <1>10, <3>4 DEF PlexThrow, Throw
      <4> QED
        BY <1>1, <3>4, <4>1 DEF PlexBegan, PlexReady
    <3> QED
      BY <2>1, <3>1, <3>2, <3>3, <3>4
  <2>3. phase' = phase \/ (phase' = at[0] /\ pc[0] # "idle")
    BY <1>10 DEF PlexSlot, PlexBegin, NextPhase, HookOver, PublishPhase, LeavePlex, SliceOver,
       PlexThrow, PlexFlag, SliceStamp, PlexJoin, LastJoin, TakePhase, GiveUp, PlexBail, At
  <2>4. phase' \in 0 .. call'.stages
    BY <1>1, <1>2, <1>3, <1>5, <1>10, <2>3
  <2>5. PlexReady'
    BY <1>3, <2>2 DEF PlexReady, InHook, PlexUnits
  <2> QED
    BY <1>3, <1>7, <1>8, <2>2, <2>4, <2>5 DEF PlexBegan, InHook, Entered
<1> QED
  BY <1>9, <1>10

LEMMA PlexCourseKept ==
  ASSUME CommonInv, PlexInv, NEW s \in Slots, PlexSlot(s)
  PROVE  PlexCourse'
<1> SUFFICES ASSUME ~cancelled' PROVE PlexCourse'
  BY DEF PlexCourse
<1>1. /\ Kind = "plex" /\ phase \in 0 .. call.stages /\ PlexPlaces /\ PlexCourse /\ SlotStep(s)
  BY PlexSteps DEF PlexSlot, PlexInv
<1>2. /\ call.stages \in Nat \ {0} /\ Line = "plex" /\ "plex" \in Lines
      /\ pc \in [Slots -> Resting \union {"idle", "body", "flag"}]
      /\ at \in [Slots -> Nat] /\ item \in [Slots -> Int \X Int]
      /\ done \in [Lines -> [Slots -> Nat]] /\ epochBase \in Nat
      /\ 0 \in Slots /\ Hook \notin Slots /\ Hook # 0
      /\ cancelled \in BOOLEAN /\ stopped \in BOOLEAN
      /\ \A t \in Slots : t \in job <=> pc[t] = "idle"
  BY <1>1, InPlex
<1>3. /\ call' = call /\ ended \subseteq ended' /\ ~cancelled
      /\ epochBase' = epochBase /\ Line' = Line
      /\ \A t \in Slots \ {s} : pc'[t] = pc[t] /\ at'[t] = at[t]
      /\ \A t \in Slots \ {s} : \A j : Reached(t, j)' <=> Reached(t, j)
  BY <1>1, OthersKeep
<1>4. /\ \A t \in Slots : \A i \in 1 .. call.stages :
           /\ Passed(t, i) => Passed(t, i)'
           /\ Passed(t, i)' => \/ Passed(t, i)
                               \/ t = s /\ i = at[s] /\ (IF s = 0 THEN PlexJoin(s) ELSE SliceStamp(s))
           /\ SlicePast(t, i)' => SlicePast(t, i) \/ (t = s /\ i = at[s] /\ SliceOver(s))
      /\ \A i \in 1 .. call.stages :
           /\ HookPast(i) => HookPast(i)'
           /\ HookPast(i)' => HookPast(i) \/ (s = 0 /\ i = at[0] /\ HookOver(s))
  BY PlexForward
<1>5. pc[s] # "idle" => at[s] \in 1 .. call.stages
  BY <1>1, <1>2 DEF PlexPlaces
<1>6. ASSUME NEW i \in 1 .. call.stages, HookPast(i)'
      PROVE  <<i, Hook>> \in ended'
  <2>1. CASE HookPast(i)
    BY <1>1, <1>3, <2>1 DEF PlexCourse
  <2>2. CASE s = 0 /\ i = at[0] /\ HookOver(s)
    <3>1. item[0] = <<at[0], Hook>>
      <4>1. pc[0] = "body" /\ item[0][2] = Hook /\ 0 \notin job
        BY <1>2, <2>2 DEF HookOver, Complete, At
      <4> QED
        BY <1>1, <1>2, <4>1 DEF PlexPlaces
    <3> QED
      BY <2>2, <3>1 DEF HookOver, Complete
  <2> QED
    BY <1>4, <1>6, <2>1, <2>2
<1>7. ASSUME NEW t \in Slots, NEW i \in 1 .. call.stages, SlicePast(t, i)'
      PROVE  <<i, t>> \in ended'
  <2>1. CASE SlicePast(t, i)
    BY <1>1, <1>3, <2>1 DEF PlexCourse
  <2>2. CASE t = s /\ i = at[s] /\ SliceOver(s)
    <3>1. item[s] = <<at[s], s>>
      <4>1. pc[s] = "body" /\ item[s][2] # Hook /\ s \notin job
        BY <1>2, <2>2 DEF SliceOver, Complete, At
      <4> QED
        BY <1>1, <1>2, <4>1 DEF PlexPlaces
    <3> QED
      BY <2>2, <3>1 DEF SliceOver, Complete
  <2> QED
    BY <1>4, <1>7, <2>1, <2>2
<1>8. ASSUME NEW t \in Slots \ {0}, NEW j \in 1 .. call.stages, Reached(t, j)'
      PROVE  Passed(t, j)'
  <2>1. CASE Reached(t, j)
    BY <1>1, <1>3, <1>4, <2>1 DEF PlexCourse
  <2>2. CASE ~Reached(t, j)
    <3>1. t = s
      BY <1>3, <1>8, <2>2
    <3>2. done' # done
      BY <1>3, <1>8, <2>2 DEF Reached
    <3>3. CASE SliceStamp(s)
      <4>1. s # 0 /\ at[s] \in 1 .. call.stages /\ pc[s] = "stamp"
        BY <1>2, <1>5, <1>8, <3>1, <3>3 DEF SliceStamp, At
      <4>2. done' = [done EXCEPT !["plex"][s] = epochBase + at[s]]
        BY <1>2, <3>3 DEF SliceStamp, Stamp
      <4>3. done'["plex"][s] = epochBase + at[s]
        BY <1>2, <4>2
      <4>4. j <= at[s]
        BY <1>2, <1>3, <1>8, <3>1, <4>3 DEF Reached
      <4>5. CASE at[s] = call.stages
        <5>1. pc'[s] = "out"
          BY <1>2, <3>3, <4>1, <4>5 DEF SliceStamp, Goto
        <5>2. at'[s] = at[s]
          <6>1. ~(s # 0 /\ at[s] < call.stages)
            BY <1>2, <4>5
          <6>2. at' = [at EXCEPT ![s] = IF s # 0 /\ at[s] < call.stages THEN at[s] + 1 ELSE at[s]]
            BY <3>3 DEF SliceStamp
          <6> QED
            BY <1>2, <6>1, <6>2
        <5>3. at[s] > j \/ at[s] = j
          <6>1. at[s] \in Nat /\ j \in Nat
            BY <1>2
          <6> QED
            BY <4>4, <6>1
        <5> QED
          BY <3>1, <5>1, <5>2, <5>3 DEF Passed
      <4>6. CASE at[s] < call.stages
        <5>1. at' = [at EXCEPT ![s] = at[s] + 1]
          BY <1>2, <3>3, <4>1, <4>6 DEF SliceStamp
        <5>2. at'[s] = at[s] + 1
          BY <1>2, <5>1
        <5> QED
          BY <1>2, <3>1, <4>4, <5>2 DEF Passed
      <4>7. at[s] = call.stages \/ at[s] < call.stages
        <5>1. call.stages \in Nat
          BY <1>2
        <5> QED
          BY <4>1, <5>1
      <4> QED
        BY <4>5, <4>6, <4>7
    <3>4. CASE PlexBail(s) \/ LeavePlex(s)
      BY <1>1, <1>2, <1>3, <3>4 DEF PlexBail, LeavePlex, At, PlexPlaces
    <3> QED
      BY <3>2, <3>3, <3>4 DEF PlexSlot, PlexBegin, Begin, NextPhase, RunOrLeave, HookOver, PublishPhase,
         SliceOver, PlexThrow, PlexFlag, PlexJoin, LastJoin, TakePhase, GiveUp, Complete, Throw, Flag, Go
  <2> QED
    BY <2>1, <2>2
<1>9. ASSUME NEW i \in 1 .. call.stages, Passed(0, i)', NEW t \in Slots \ {0}
      PROVE  Passed(t, i)'
  <2>1. CASE Passed(0, i)
    BY <1>1, <1>3, <1>4, <2>1 DEF PlexCourse
  <2>2. CASE s = 0 /\ i = at[0] /\ PlexJoin(s)
    <3>1. Reached(t, i)
      BY <2>2 DEF PlexJoin, AllOthers, Others
    <3>2. Passed(t, i)
      BY <1>1, <1>3, <3>1 DEF PlexCourse
    <3> QED
      BY <1>4, <3>2
  <2> QED
    BY <1>2, <1>4, <1>9, <2>1, <2>2
<1>10. ASSUME NEW i, i = phase', i >= 1
       PROVE  HookPast(i)'
  <2>1. CASE phase' = phase
    <3>1. i \in 1 .. call.stages /\ i = phase
      BY <1>1, <1>2, <1>10, <2>1
    <3>2. HookPast(i)
      BY <1>1, <1>3, <1>10, <3>1 DEF PlexCourse
    <3> QED
      BY <1>4, <3>1, <3>2
  <2>2. CASE PublishPhase(s)
    <3>1. s = 0
      BY <1>1, <1>2, <2>2 DEF PublishPhase, At, PlexPlaces
    <3>2. phase' = at[0] /\ at'[0] = at[0] /\ pc'[0] = "body" /\ item'[0] = <<at[0], 0>>
      BY <1>2, <2>2, <3>1 DEF PublishPhase, Run, Goto
    <3>3. InSlice' /\ at'[0] = i
      BY <1>10, <3>2 DEF InSlice
    <3> QED
      BY <3>3 DEF HookPast
  <2>3. ~LeavePlex(s)
    BY <1>1, <1>2, <1>3 DEF LeavePlex, At, PlexPlaces
  <2> QED
    BY <2>1, <2>2, <2>3 DEF PlexSlot, PlexBegin, NextPhase, HookOver, SliceOver, PlexThrow, PlexFlag,
       SliceStamp, PlexJoin, LastJoin, TakePhase, GiveUp, PlexBail
<1> QED
  <2>1. \A i \in 1 .. call'.stages : HookPast(i)' => <<i, Hook>> \in ended'
    BY <1>3, <1>6
  <2>2. \A t \in Slots : \A i \in 1 .. call'.stages : SlicePast(t, i)' => <<i, t>> \in ended'
    BY <1>3, <1>7
  <2>3. \A t \in Slots \ {0} : \A j \in 1 .. call'.stages : Reached(t, j)' => Passed(t, j)'
    BY <1>3, <1>8
  <2>4. \A i \in 1 .. call'.stages : Passed(0, i)' => \A t \in Slots \ {0} : Passed(t, i)'
    BY <1>3, <1>9
  <2>5. (phase >= 1 => HookPast(phase))'
    BY <1>10 DEF HookPast, InSlice
  <2> QED
    BY <2>1, <2>2, <2>3, <2>4, <2>5 DEF PlexCourse, HookPast, InSlice, SlicePast, Passed, Reached

LEMMA PlexKept ==
  ASSUME CommonInv, PlexInv, NEW s \in Slots, PlexSlot(s)
  PROVE  PlexInv'
BY PlexPlacesKept, PlexBeganKept, PlexCourseKept DEF PlexInv

LEMMA PlexOpens ==
  ASSUME CommonInv, OpenCall
  PROVE  PlexInv'
<1> SUFFICES ASSUME Kind' = "plex" PROVE PlexInv'
  BY DEF PlexInv
<1>1. /\ CommonInv' /\ call' # NoCall
      /\ began' = {} /\ job' = Slots
      /\ \A s \in Slots : pc'[s] = "idle" /\ at'[s] = 0
      /\ \A s \in Slots : \A j \in Nat \ {0} : ~Reached(s, j)'
  BY OpenKeeps
<1>2. call'.stages \in Nat \ {0} /\ 0 \in Slots /\ phase' = 0
  BY <1>1, OpenKeeps, StagedAssumption DEF IsCall, Kind, StagedAssumption, OpenCall, PlexOpen
<1>3. PlexPlaces'
  BY <1>1 DEF PlexPlaces
<1>4. PlexBegan' /\ PlexReady'
  BY <1>1, <1>2 DEF PlexBegan, PlexReady, InHook
<1>5. PlexCourse'
  <2>1. \A s \in Slots : \A i \in 1 .. call'.stages :
          ~HookPast(i)' /\ ~SlicePast(s, i)' /\ ~Reached(s, i)' /\ ~Passed(s, i)'
    BY <1>1, <1>2 DEF HookPast, InSlice, SlicePast, Passed
  <2> QED
    BY <1>2, <2>1 DEF PlexCourse
<1> QED
  BY <1>2, <1>3, <1>4, <1>5 DEF PlexInv

(* When all slots are out and none has given up, nothing is left. *)
LEMMA PlexDone ==
  ASSUME CommonInv, PlexInv, Kind = "plex", Through, ~cancelled
  PROVE  UnitsOf(Current) \subseteq ended
<1>1. PlexPlaces /\ PlexCourse
  BY DEF PlexInv
<1>2. /\ call.stages \in Nat \ {0} /\ 0 \in Slots
      /\ UnitsOf(Current) = PlexUnits(call)
  BY InPlex
<1>3. pc[0] = "out" /\ at[0] = call.stages
  BY <1>1, <1>2 DEF Through, At, PlexPlaces
<1>4. ASSUME NEW u \in PlexUnits(call)
      PROVE  u \in ended
  <2>1. u[1] \in 1 .. call.stages
    BY PlexUnit
  <2>2. Passed(0, u[1])
    BY <1>2, <1>3, <2>1 DEF Passed
  <2> QED
    BY <1>1, <2>1, <2>2, BehindPlex
<1> QED
  BY <1>2, <1>4

-----------------------------------------------------------------------------
(***************************************************************************)
(* parallelScan.  The places of a slot's way are rungs of one ladder,      *)
(* whatever the way: flat or in clusters, of a leader, of a member or of   *)
(* slot 0.  A body of stage k stands on rung 3k - 2; a slot only climbs.   *)
(* So what has begun is what lies on or below the rung, what lies below it *)
(* is over, and all that the slots tell each other, by the done lines, the *)
(* stamps of the clusters and the published prefixes, is how far they have *)
(* climbed.                                                                *)
(***************************************************************************)
Rung(s) ==
  CASE pc[s] \in {"body", "flag"} -> 3 * item[s][1] - 2
    [] pc[s] \in {"idle", "wait"} -> 0
    [] pc[s] = "first" -> 2
    [] pc[s] \in {"gather", "member"} -> 3
    [] pc[s] = "total" -> 5
    [] pc[s] = "cross" -> 6
    [] pc[s] \in {"publish", "published"} -> 8
    [] pc[s] = "combine" -> 9
    [] pc[s] = "ready" -> 11
    [] pc[s] = "pass2" -> 12
    [] pc[s] = "second" -> 14
    [] pc[s] = "release" -> 15
    [] pc[s] = "drain" -> 16
    [] OTHER -> 17

(* Since a first pass has thrown, and its slot has said so, the folds of a *)
(* clustered scan go on by themselves.                                     *)
Thrown == cancelled /\ FirstThrown

InUnit(s, k) == pc[s] \in {"body", "flag"} /\ item[s][1] = k
Leader(s) == Leads(layout, s)

(* Who gets where. *)
ScanPlaces ==
  \A s \in Slots \ job :
    /\ pc[s] \in {"wait", "body", "flag", "first", "gather", "member", "published", "total",
                  "cross", "publish", "combine", "ready", "pass2", "second", "release",
                  "drain", "out"}
    /\ pc[s] \in {"body", "flag"} => item[s][1] \in 1 .. 5 /\ item[s] = <<item[s][1], s>>
    /\ pc[s] = "gather" \/ InUnit(s, Fold) => IF Hierarchical THEN IsLeader(s) ELSE s = 0
    /\ pc[s] \in {"total", "combine", "ready"} \/ InUnit(s, Combine) => Hierarchical /\ IsLeader(s)
    /\ pc[s] = "published" /\ Hierarchical => IsLeader(s)
    /\ pc[s] = "member" => Hierarchical /\ ~IsLeader(s)
    /\ pc[s] = "cross" \/ InUnit(s, Cross) => Hierarchical /\ s = 0
    /\ pc[s] = "publish" => s = 0
    /\ pc[s] \in {"release", "drain"} => s = 0 /\ cancelled

ScanBegan ==
  /\ \A u \in began : /\ u[1] \in 1 .. 5 /\ u[2] \in Slots /\ u = <<u[1], u[2]>>
                      /\ Rung(u[2]) >= 3 * u[1] - 2
  /\ \A s \in Slots : Rung(s) >= 1 => <<Pass1, s>> \in began
  /\ Hierarchical /\ ~Thrown =>
       /\ \A s \in Slots : IsLeader(s) => /\ Rung(s) >= 4 => <<Fold, s>> \in began
                                          /\ Rung(s) >= 10 => <<Combine, s>> \in began
       /\ Rung(0) >= 7 => <<Cross, 0>> \in began

(* What the slots learn of each other. *)
Entries(n, v, w) == [stamp |-> n, total |-> v, prefix |-> w]

ScanMeets ==
  /\ published \in BOOLEAN
  /\ cluster = [k \in Slots |-> cluster[k]]
  /\ \A k \in Slots : /\ cluster[k] = Entries(cluster[k].stamp, cluster[k].total, cluster[k].prefix)
                     /\ cluster[k].stamp \in Nat
  /\ \A s \in Slots : Reached(s, 1) => Rung(s) >= 3
  /\ published => Rung(0) >= 9
  /\ Hierarchical /\ ~Thrown =>
       \A s \in Slots : \A l \in {Leader(s)} :
         /\ cluster[layout[s]].stamp >= 1 => Rung(l) >= 6
         /\ cluster[layout[s]].stamp >= 2 => Rung(l) >= 12
         /\ Rung(l) >= 4 => Rung(s) >= 3
         /\ Rung(0) >= 7 => Rung(l) >= 6
         /\ IsLeader(s) /\ Rung(s) >= 9 => published

ScanCourse ==
  ~cancelled =>
    /\ ~Hierarchical => /\ Rung(0) >= 4 => <<Fold, 0>> \in began /\ \A s \in Slots : Rung(s) >= 3
                        /\ \A s \in Slots : Rung(s) >= 9 => published
    /\ Hierarchical => \A s \in Slots : \A l \in {Leader(s)} : Rung(s) >= 12 => Rung(l) >= 12
    /\ \A s \in Slots : Rung(s) >= 14 => <<Pass2, s>> \in began

ScanInv == Kind = "scan" => ScanPlaces /\ ScanBegan /\ ScanMeets /\ ScanCourse

(* What the proofs about a scan take from CommonInv. *)
LEMMA InScan ==
  ASSUME CommonInv, Kind = "scan"
  PROVE  /\ call # NoCall /\ call.kind = "scan" /\ Line = "chain"
         /\ Interval(call) = 3
         /\ UnitsOf(Current) = ScanUnits(layout)
         /\ \A u : /\ NeedsOf(Current, u) = ScanNeeds(layout, u)
                   /\ AfterOf(Current, u) = ScanAfter(layout, u)
         /\ pc \in [Slots -> Resting \union {"idle", "body", "flag"}]
         /\ at \in [Slots -> 0 .. Stages] /\ item \in [Slots -> Int \X Int]
         /\ done \in [Lines -> [Slots -> Nat]] /\ epochBase \in Nat
         /\ "chain" \in Lines
         /\ cancelled \in BOOLEAN /\ stopped \in BOOLEAN
         /\ 0 \in Slots /\ Slots \subseteq Nat /\ 0 \in 0 .. Stages
         /\ \A s \in Slots : s \in job <=> pc[s] = "idle"
<1>1. call # NoCall /\ call.kind = "scan" /\ IsCall(call)
  BY AtHand DEF Kind, CommonInv
<1>2. Current.of = call /\ Current.on = layout
  BY DEF Current, Plan
<1>3. Stages = call.stages /\ call.stages \in Nat
  BY <1>1 DEF Stages, IsCall
<1>4. epochBase \in Nat /\ 0 \in Slots /\ Slots \subseteq Nat
  BY StagedAssumption DEF CommonInv, TypeInv, StagedAssumption
<1>5. /\ UnitsOf(Current) = ScanUnits(layout)
      /\ \A u : /\ NeedsOf(Current, u) = ScanNeeds(layout, u)
                /\ AfterOf(Current, u) = ScanAfter(layout, u)
  BY <1>1, <1>2 DEF UnitsOf, NeedsOf, AfterOf
<1> QED
  BY <1>1, <1>3, <1>4, <1>5 DEF Line, Kind, Interval, CommonInv, TypeInv, Lines, ShareInv

LEMMA TheLeaders ==
  ASSUME CommonInv
  PROVE  /\ layout \in [Slots -> Slots] /\ layout[0] = 0
         /\ \A s \in Slots : /\ Leader(s) \in Slots /\ layout[Leader(s)] = layout[s]
                             /\ Leader(Leader(s)) = Leader(s) /\ IsLeader(Leader(s))
                             /\ IsLeader(s) <=> s = Leader(s)
         /\ \A s, t \in Slots : layout[s] = layout[t] => Leader(s) = Leader(t)
         /\ Leader(0) = 0 /\ IsLeader(0)
<1>1. layout \in [Slots -> Slots] /\ layout[0] = 0 /\ 0 \in Slots
  BY AtHand, StagedAssumption DEF CommonInv, StagedAssumption
<1>2. \A s \in Slots : Leader(s) \in Slots /\ layout[Leader(s)] = layout[s]
  BY <1>1, LeadsIn DEF Leader
<1>3. \A s, t \in Slots : layout[s] = layout[t] => Leader(s) = Leader(t)
  BY LeadsSame DEF Leader
<1>4. \A s \in Slots : Leader(Leader(s)) = Leader(s)
  BY <1>2, <1>3
<1>5. \A s \in Slots : IsLeader(s) <=> s = Leader(s)
  BY DEF IsLeader, Leader
<1>6. Leader(0) = 0
  BY <1>1, ZeroLeads DEF Leader
<1> QED
  BY <1>1, <1>2, <1>3, <1>4, <1>5, <1>6

(* The units of a scan. *)
LEMMA ScanUnit ==
  ASSUME NEW u
  PROVE  u \in ScanUnits(layout) <=>
           /\ u = <<u[1], u[2]>>
           /\ \/ u[1] \in {Pass1, Pass2} /\ u[2] \in Slots
              \/ Hierarchical /\ u[1] \in {Fold, Combine} /\ \E s \in Slots : u[2] = Leader(s)
              \/ Hierarchical /\ u[1] = Cross /\ u[2] = 0
              \/ ~Hierarchical /\ u[1] = Fold /\ u[2] = 0
<1>1. CASE Hierarchical
  <2>1. ScanUnits(layout) = ({Pass1, Pass2} \X Slots) \union
          (({Fold, Combine} \X {Leader(s) : s \in Slots}) \union {<<Cross, 0>>})
    BY <1>1 DEF ScanUnits, Hierarchical, Leader
  <2> QED
    BY <1>1, <2>1
<1>2. CASE ~Hierarchical
  <2>1. ScanUnits(layout) = ({Pass1, Pass2} \X Slots) \union {<<Fold, 0>>}
    BY <1>2 DEF ScanUnits, Hierarchical
  <2> QED
    BY <1>2, <2>1
<1> QED
  BY <1>1, <1>2

(* What has begun and lies below the rung is over, and completed as long   *)
(* as nobody gives up.                                                     *)
LEMMA BelowIsOver ==
  ASSUME CommonInv, Kind = "scan", ScanPlaces, NEW k \in 1 .. 5, NEW s \in Slots,
         <<k, s>> \in began, Rung(s) > 3 * k - 2
  PROVE  /\ <<k, s>> \in ended \union failed
         /\ ~cancelled => <<k, s>> \in ended
<1>1. \A t \in Slots : t \in job <=> pc[t] = "idle"
  BY InScan
<1>2. ASSUME NEW t \in Slots, pc[t] \in {"body", "flag"}, item[t] = <<k, s>>
      PROVE  FALSE
  <2>1. item[t] = <<item[t][1], t>>
    BY <1>1, <1>2 DEF ScanPlaces
  <2>2. t = s /\ item[t][1] = k
    BY <1>2, <2>1
  <2>3. Rung(s) = 3 * k - 2
    BY <1>2, <2>2 DEF Rung
  <2> QED
    BY <2>3
<1>3. <<k, s>> \in ended \union failed
  BY <1>2 DEF CommonInv, HistInv, Runs
<1>4. ~cancelled => <<k, s>> \notin failed
  BY <1>2 DEF CommonInv, ExcInv
<1> QED
  BY <1>3, <1>4

(* The rungs are numbers. *)
LEMMA RungsAre ==
  ASSUME CommonInv, Kind = "scan", ScanPlaces, NEW s \in Slots
  PROVE  Rung(s) \in Nat
<1>1. /\ pc[s] \in {"body", "flag"} => item[s][1] \in 1 .. 5
  BY InScan DEF ScanPlaces
<1>2. CASE pc[s] \in {"body", "flag"}
  BY <1>1, <1>2 DEF Rung
<1>3. CASE pc[s] \notin {"body", "flag"}
  BY <1>3 DEF Rung
<1> QED
  BY <1>2, <1>3

(* What each action climbs. *)
LEMMA ScanWay ==
  ASSUME CommonInv, ScanInv, Kind = "scan", NEW s \in Slots
  PROVE  /\ ScanBegin(s) => Rung(s) = 0 /\ Rung(s)' = 0
         /\ First(s) => Rung(s) = 0 /\ Rung(s)' = 1
         /\ FirstOver(s) => Rung(s) = 1 /\ Rung(s)' = 2
         /\ FirstStamp(s) => /\ Rung(s) = 2
                             /\ Rung(s)' = IF Hierarchical \/ s = 0 THEN 3 ELSE 8
         /\ ScanThrow(s) => Rung(s)' = Rung(s)
         /\ GatherAll(s) => Rung(s) = 3 /\ Rung(s)' = IF exc # None THEN 8 ELSE 4
         /\ GatherCluster(s) => Rung(s) = 3 /\ Rung(s)' = 4
         /\ FoldOver(s) => Rung(s) = 4 /\ Rung(s)' = IF Hierarchical THEN 5 ELSE 8
         /\ PublishTotal(s) => Rung(s) = 5 /\ Rung(s)' = IF s = 0 THEN 6 ELSE 8
         /\ GatherTotals(s) => Rung(s) = 6 /\ Rung(s)' = 7
         /\ CrossOver(s) => Rung(s) = 7 /\ Rung(s)' = 8
         /\ Publish(s) \/ SeePublished(s) => Rung(s) = 8 /\ Rung(s)' = IF Hierarchical THEN 9 ELSE 12
         /\ StartCombine(s) => Rung(s) = 9 /\ Rung(s)' = 10
         /\ CombineOver(s) => Rung(s) = 10 /\ Rung(s)' = 11
         /\ Ready(s) => Rung(s) = 11 /\ Rung(s)' = 12
         /\ SeeReady(s) => Rung(s) = 3 /\ Rung(s)' = 12
         /\ Second(s) => Rung(s) = 12 /\ Rung(s)' = IF Cancelling THEN 14 ELSE 13
         /\ SecondOver(s) => Rung(s) = 13 /\ Rung(s)' = 14
         /\ SecondStamp(s) => Rung(s) = 14 /\ Rung(s)' \in {15, 17}
         /\ Release(s) => Rung(s) = 15 /\ Rung(s)' = 16
         /\ Drain(s) => Rung(s) = 16 /\ Rung(s)' = 17
<1>1. /\ pc \in [Slots -> Resting \union {"idle", "body", "flag"}]
      /\ item \in [Slots -> Int \X Int] /\ 0 \in Slots
      /\ \A t \in Slots : t \in job <=> pc[t] = "idle"
  BY InScan
<1>2. ScanBegin(s) => Rung(s) = 0 /\ Rung(s)' = 0
  BY <1>1 DEF ScanBegin, Begin, Goto, Rung
<1>3. First(s) => Rung(s) = 0 /\ Rung(s)' = 1
  BY <1>1 DEF First, Run, Goto, At, Rung, Pass1
<1>4. FirstOver(s) => Rung(s) = 1 /\ Rung(s)' = 2
  BY <1>1 DEF FirstOver, Complete, Goto, At, Rung, Stage, Pass1
<1>5. FirstStamp(s) => /\ Rung(s) = 2
                       /\ Rung(s)' = IF Hierarchical \/ s = 0 THEN 3 ELSE 8
  <2> SUFFICES ASSUME FirstStamp(s)
               PROVE  Rung(s) = 2 /\ Rung(s)' = IF Hierarchical \/ s = 0 THEN 3 ELSE 8
    OBVIOUS
  <2>1. /\ pc[s] = "first"
        /\ pc'[s] = IF Hierarchical THEN IF IsLeader(s) THEN "gather" ELSE "member"
                    ELSE IF s = 0 THEN "gather" ELSE "published"
    BY <1>1 DEF FirstStamp, StampAndGo, Goto, At
  <2> QED
    BY <2>1 DEF Rung
<1>6. ScanThrow(s) => Rung(s)' = Rung(s)
  BY <1>1 DEF ScanThrow, Throw, Goto, At, Rung
<1>7. GatherAll(s) => Rung(s) = 3 /\ Rung(s)' = IF exc # None THEN 8 ELSE 4
  <2> SUFFICES ASSUME GatherAll(s)
               PROVE  Rung(s) = 3 /\ Rung(s)' = IF exc # None THEN 8 ELSE 4
    OBVIOUS
  <2>1. /\ pc[s] = "gather"
        /\ exc # None => pc'[s] = "publish"
        /\ exc = None => pc'[s] = "body" /\ item'[s][1] = Fold
    BY <1>1 DEF GatherAll, Run, Goto, At
  <2> QED
    BY <2>1 DEF Rung, Fold
<1>8. GatherCluster(s) => Rung(s) = 3 /\ Rung(s)' = 4
  BY <1>1 DEF GatherCluster, Run, Goto, At, Rung, Fold
<1>9. FoldOver(s) => Rung(s) = 4 /\ Rung(s)' = IF Hierarchical THEN 5 ELSE 8
  BY <1>1 DEF FoldOver, Complete, Goto, At, Rung, Stage, Fold
<1>10. PublishTotal(s) => Rung(s) = 5 /\ Rung(s)' = IF s = 0 THEN 6 ELSE 8
  BY <1>1 DEF PublishTotal, Go, Goto, At, Rung
<1>11. GatherTotals(s) => Rung(s) = 6 /\ Rung(s)' = 7
  BY <1>1 DEF GatherTotals, Run, Goto, At, Rung, Cross
<1>12. CrossOver(s) => Rung(s) = 7 /\ Rung(s)' = 8
  BY <1>1 DEF CrossOver, Complete, Goto, At, Rung, Stage, Cross
<1>13. Publish(s) \/ SeePublished(s) => Rung(s) = 8 /\ Rung(s)' = IF Hierarchical THEN 9 ELSE 12
  BY <1>1 DEF Publish, SeePublished, Go, Goto, At, Rung
<1>14. StartCombine(s) => Rung(s) = 9 /\ Rung(s)' = 10
  BY <1>1 DEF StartCombine, Run, Goto, At, Rung, Combine
<1>15. CombineOver(s) => Rung(s) = 10 /\ Rung(s)' = 11
  BY <1>1 DEF CombineOver, Complete, Goto, At, Rung, Stage, Combine
<1>16. Ready(s) => Rung(s) = 11 /\ Rung(s)' = 12
  BY <1>1 DEF Ready, Go, Goto, At, Rung
<1>17. SeeReady(s) => Rung(s) = 3 /\ Rung(s)' = 12
  BY <1>1 DEF SeeReady, Go, Goto, At, Rung
<1>18. Second(s) => Rung(s) = 12 /\ Rung(s)' = IF Cancelling THEN 14 ELSE 13
  BY <1>1 DEF Second, RunOrLeave, Run, Goto, At, Rung, Pass2
<1>19. SecondOver(s) => Rung(s) = 13 /\ Rung(s)' = 14
  BY <1>1 DEF SecondOver, Complete, Goto, At, Rung, Stage, Pass2
<1>20. SecondStamp(s) => Rung(s) = 14 /\ Rung(s)' \in {15, 17}
  BY <1>1 DEF SecondStamp, StampAndGo, Goto, At, Rung
<1>21. Release(s) => Rung(s) = 15 /\ Rung(s)' = 16
  BY <1>1 DEF Release, Go, Goto, At, Rung
<1>22. Drain(s) => Rung(s) = 16 /\ Rung(s)' = 17
  BY <1>1 DEF Drain, Go, Goto, At, Rung
<1> QED
  BY <1>2, <1>3, <1>4, <1>5, <1>6, <1>7, <1>8, <1>9, <1>10, <1>11, <1>12, <1>13, <1>14, <1>15,
     <1>16, <1>17, <1>18, <1>19, <1>20, <1>21, <1>22

-----------------------------------------------------------------------------
(* What a second pass builds on is completed, if nobody has given up. *)
LEMMA SecondReady ==
  ASSUME CommonInv, Kind = "scan", ScanPlaces, ScanBegan, ScanMeets, ScanCourse, ~cancelled,
         NEW s \in Slots, Rung(s) = 12
  PROVE  ScanNeeds(layout, <<Pass2, s>>) \subseteq ended
<1>1. /\ 0 \in Slots /\ \A t \in Slots : Rung(t) \in Nat
      /\ \A t \in Slots : Leader(t) \in Slots /\ IsLeader(Leader(t)) /\ Leader(Leader(t)) = Leader(t)
      /\ layout \in [Slots -> Slots] /\ \A t \in Slots : layout[Leader(t)] = layout[t]
      /\ ~Thrown
  BY InScan, RungsAre, TheLeaders DEF Thrown
<1>2. Rung(s) >= 9
  BY <1>1
<1>3. ASSUME NEW t \in Slots, Rung(t) >= 3
      PROVE  <<Pass1, t>> \in ended
  <2>1. Rung(t) >= 1 /\ Rung(t) > 3 * 1 - 2
    BY <1>1, <1>3
  <2>2. <<1, t>> \in began
    BY <2>1 DEF ScanBegan, Pass1
  <2> QED
    BY <2>1, <2>2, BelowIsOver DEF Pass1
<1>4. CASE Hierarchical
  <2>1. Rung(Leader(s)) >= 12
    <3>1. Rung(s) >= 12
      BY <1>1
    <3> QED
      BY <1>4, <3>1 DEF ScanCourse
  <2>2. Rung(Leader(s)) >= 9 /\ Rung(Leader(s)) >= 10 /\ Rung(Leader(s)) > 3 * 4 - 2
    <3>1. Rung(Leader(s)) \in Nat
      BY <1>1
    <3> QED
      BY <2>1, <3>1
  <2>3. Rung(0) >= 9
    BY <1>1, <1>4, <2>2 DEF ScanMeets
  <2>4. Rung(0) >= 7 /\ Rung(0) > 3 * 3 - 2
    <3>1. Rung(0) \in Nat
      BY <1>1
    <3> QED
      BY <2>3, <3>1
  <2>5. <<Combine, Leader(s)>> \in ended
    <3>1. <<4, Leader(s)>> \in began
      BY <1>1, <1>4, <2>2 DEF ScanBegan, Combine
    <3> QED
      BY <1>1, <2>2, <3>1, BelowIsOver DEF Combine
  <2>6. <<Cross, 0>> \in ended
    <3>1. <<3, 0>> \in began
      BY <1>1, <1>4, <2>4 DEF ScanBegan, Cross
    <3> QED
      BY <1>1, <2>4, <3>1, BelowIsOver DEF Cross
  <2>7. ASSUME NEW t \in Slots
        PROVE  <<Fold, Leader(t)>> \in ended /\ <<Pass1, t>> \in ended
    <3>1. Rung(Leader(t)) >= 6
      BY <1>1, <1>4, <2>4 DEF ScanMeets
    <3>2. Rung(Leader(t)) >= 4 /\ Rung(Leader(t)) > 3 * 2 - 2
      <4>1. Rung(Leader(t)) \in Nat
        BY <1>1
      <4> QED
        BY <3>1, <4>1
    <3>3. <<2, Leader(t)>> \in began
      BY <1>1, <1>4, <3>2 DEF ScanBegan, Fold
    <3>4. <<Fold, Leader(t)>> \in ended
      BY <1>1, <3>2, <3>3, BelowIsOver DEF Fold
    <3>5. Rung(t) >= 3
      BY <1>1, <1>4, <3>2 DEF ScanMeets
    <3> QED
      BY <1>3, <3>4, <3>5
  <2> SUFFICES ASSUME NEW v \in ScanNeeds(layout, <<Pass2, s>>)
               PROVE  v \in ended
    OBVIOUS
  <2>8. v \in ScanUnits(layout) /\ (v[1] \in {Pass1, Fold, Cross} \/ v = <<Combine, Leader(s)>>)
    BY <1>4 DEF ScanNeeds, Hierarchical, Leader, Pass2, Fold
  <2>9. /\ v = <<v[1], v[2]>>
        /\ \/ v[1] = Pass1 /\ v[2] \in Slots
           \/ v[1] = Fold /\ \E t \in Slots : v[2] = Leader(t)
           \/ v[1] = Cross /\ v[2] = 0
           \/ v = <<Combine, Leader(s)>>
    BY <1>4, <2>8, ScanUnit DEF Pass1, Fold, Cross, Combine, Pass2
  <2> QED
    BY <2>5, <2>6, <2>7, <2>9
<1>5. CASE ~Hierarchical
  <2>1. Rung(0) >= 9
    BY <1>2, <1>5 DEF ScanCourse, ScanMeets
  <2>2. Rung(0) >= 4 /\ Rung(0) > 3 * 2 - 2
    <3>1. Rung(0) \in Nat
      BY <1>1
    <3> QED
      BY <2>1, <3>1
  <2>3. <<2, 0>> \in began /\ \A t \in Slots : Rung(t) >= 3
    BY <1>5, <2>2 DEF ScanCourse, Fold
  <2>4. <<Fold, 0>> \in ended
    BY <1>1, <2>2, <2>3, BelowIsOver DEF Fold
  <2> SUFFICES ASSUME NEW v \in ScanNeeds(layout, <<Pass2, s>>)
               PROVE  v \in ended
    OBVIOUS
  <2>5. v \in ScanUnits(layout) /\ (v[1] \in {Pass1, Fold, Cross} \/ v[1] = Combine)
    BY <1>5 DEF ScanNeeds, Hierarchical, Pass2, Fold
  <2>6. v = <<v[1], v[2]>> /\ ((v[1] = Pass1 /\ v[2] \in Slots) \/ (v[1] = Fold /\ v[2] = 0))
    BY <1>5, <2>5, ScanUnit DEF Pass1, Fold, Cross, Combine, Pass2
  <2> QED
    BY <1>3, <2>3, <2>4, <2>6
<1> QED
  BY <1>4, <1>5

(* What a fold, the fold of the totals and a combination wait for. *)
LEMMA FoldReady ==
  ASSUME CommonInv, Kind = "scan", ScanPlaces, ScanBegan, ScanMeets, Hierarchical, ~Thrown,
         NEW s \in Slots, IsLeader(s), Rung(s) >= 3,
         \A t \in Members(layout[s]) \ {s} : Reached(t, 1)
  PROVE  /\ \A t \in Members(layout[s]) : Rung(t) >= 3
         /\ ScanNeeds(layout, <<Fold, s>>) \subseteq ended
<1>1. \A t \in Slots : Rung(t) \in Nat
  BY RungsAre
<1>2. ASSUME NEW t \in Members(layout[s])
      PROVE  t \in Slots /\ Rung(t) >= 3
  BY <1>2 DEF Members, In, ScanMeets
<1>3. ASSUME NEW v \in ScanNeeds(layout, <<Fold, s>>)
      PROVE  v \in ended
  <2>1. v \in ScanUnits(layout) /\ v[1] = Pass1 /\ layout[v[2]] = layout[s]
    BY DEF ScanNeeds, Fold, Pass2
  <2>2. v = <<1, v[2]>> /\ v[2] \in Slots
    BY <2>1, ScanUnit DEF Pass1, Fold, Cross, Combine, Pass2
  <2>3. v[2] \in Members(layout[s])
    BY <2>1, <2>2 DEF Members, In
  <2>4. Rung(v[2]) >= 3
    BY <1>2, <2>3
  <2>5. Rung(v[2]) >= 1 /\ Rung(v[2]) > 3 * 1 - 2
    <3>1. Rung(v[2]) \in Nat
      BY <1>1, <2>2
    <3> QED
      BY <2>4, <3>1
  <2>6. <<1, v[2]>> \in began
    BY <2>2, <2>5 DEF ScanBegan, Pass1
  <2>7. <<1, v[2]>> \in ended \union failed /\ (~cancelled => <<1, v[2]>> \in ended)
    BY <2>2, <2>5, <2>6, BelowIsOver
  <2>8. cancelled => <<1, v[2]>> \notin failed
    BY <2>2 DEF Thrown, FirstThrown, Pass1
  <2> QED
    BY <2>2, <2>7, <2>8
<1> QED
  BY <1>2, <1>3

LEMMA CrossReady ==
  ASSUME CommonInv, Kind = "scan", ScanPlaces, ScanBegan, ScanMeets, Hierarchical, ~Thrown,
         Rung(0) >= 6, \A k \in Clusters \ {0} : cluster[k].stamp >= 1
  PROVE  /\ \A t \in Slots : Rung(Leader(t)) >= 6
         /\ ScanAfter(layout, <<Cross, 0>>) \subseteq ended \union failed
<1>1. /\ 0 \in Slots /\ \A t \in Slots : Rung(t) \in Nat
      /\ \A t \in Slots : Leader(t) \in Slots /\ IsLeader(Leader(t))
      /\ \A t, u \in Slots : layout[t] = layout[u] => Leader(t) = Leader(u)
      /\ Leader(0) = 0 /\ layout[0] = 0
  BY InScan, RungsAre, TheLeaders
<1>2. ASSUME NEW t \in Slots
      PROVE  Rung(Leader(t)) >= 6
  <2>1. CASE layout[t] = 0
    <3>1. Leader(t) = 0
      BY <1>1, <2>1
    <3> QED
      BY <3>1
  <2>2. CASE layout[t] # 0
    <3>1. layout[t] \in Clusters \ {0}
      BY <2>2 DEF Clusters
    <3>2. cluster[layout[t]].stamp >= 1
      BY <3>1
    <3> QED
      BY <3>2 DEF ScanMeets
  <2> QED
    BY <2>1, <2>2
<1>3. ASSUME NEW v \in ScanAfter(layout, <<Cross, 0>>)
      PROVE  v \in ended \union failed
  <2>1. v \in ScanUnits(layout) /\ v[1] = Fold
    BY DEF ScanAfter, Fold, Cross, Combine
  <2>2. PICK t \in Slots : v = <<2, Leader(t)>>
    BY <2>1, ScanUnit DEF Pass1, Fold, Cross, Combine, Pass2
  <2>3. Rung(Leader(t)) >= 4 /\ Rung(Leader(t)) > 3 * 2 - 2
    <3>1. Rung(Leader(t)) \in Nat /\ Rung(Leader(t)) >= 6
      BY <1>1, <1>2
    <3> QED
      BY <3>1
  <2>4. <<2, Leader(t)>> \in began
    BY <1>1, <2>3 DEF ScanBegan, Fold
  <2>5. <<2, Leader(t)>> \in ended \union failed
    BY <1>1, <2>3, <2>4, BelowIsOver
  <2> QED
    BY <2>2, <2>5
<1> QED
  BY <1>2, <1>3

LEMMA CombineReady ==
  ASSUME CommonInv, Kind = "scan", ScanPlaces, ScanBegan, ScanMeets, Hierarchical, ~Thrown,
         NEW s \in Slots, IsLeader(s), Rung(s) >= 9
  PROVE  ScanAfter(layout, <<Combine, s>>) \subseteq ended \union failed
<1>1. 0 \in Slots /\ Rung(0) \in Nat
  BY InScan, RungsAre
<1>2. Rung(0) >= 9
  BY DEF ScanMeets
<1>3. Rung(0) >= 7 /\ Rung(0) > 3 * 3 - 2
  BY <1>1, <1>2
<1>4. <<3, 0>> \in began
  BY <1>3 DEF ScanBegan, Cross
<1>5. <<3, 0>> \in ended \union failed
  BY <1>1, <1>3, <1>4, BelowIsOver
<1>6. \A v \in ScanAfter(layout, <<Combine, s>>) : v = <<3, 0>>
  BY ScanUnit DEF ScanAfter, Pass1, Fold, Cross, Combine, Pass2
<1> QED
  BY <1>5, <1>6

(* The flat fold begins when nothing has thrown, so that all first passes  *)
(* are completed.                                                          *)
LEMMA FlatReady ==
  ASSUME CommonInv, Kind = "scan", ScanPlaces, ScanBegan, ScanMeets, ~Hierarchical,
         Rung(0) >= 3, exc = None, \A t \in Others(0) : Reached(t, 1)
  PROVE  /\ \A t \in Slots : Rung(t) >= 3
         /\ ScanNeeds(layout, <<Fold, 0>>) \subseteq ended
<1>1. /\ 0 \in Slots /\ \A t \in Slots : Rung(t) \in Nat
  BY InScan, RungsAre
<1>2. ASSUME NEW t \in Slots
      PROVE  Rung(t) >= 3
  BY <1>2 DEF Others, ScanMeets
<1>3. failed = {}
  BY DEF CommonInv, ExcInv
<1>4. ASSUME NEW v \in ScanNeeds(layout, <<Fold, 0>>)
      PROVE  v \in ended
  <2>1. v \in ScanUnits(layout) /\ v[1] = Pass1
    BY DEF ScanNeeds, Fold, Pass2
  <2>2. v = <<1, v[2]>> /\ v[2] \in Slots
    BY <2>1, ScanUnit DEF Pass1, Fold, Cross, Combine, Pass2
  <2>3. Rung(v[2]) >= 1 /\ Rung(v[2]) > 3 * 1 - 2
    <3>1. Rung(v[2]) \in Nat /\ Rung(v[2]) >= 3
      BY <1>1, <1>2, <2>2
    <3> QED
      BY <3>1
  <2>4. <<1, v[2]>> \in began
    BY <2>2, <2>3 DEF ScanBegan, Pass1
  <2>5. <<1, v[2]>> \in ended \union failed
    BY <2>2, <2>3, <2>4, BelowIsOver
  <2> QED
    BY <1>3, <2>2, <2>5
<1> QED
  BY <1>2, <1>4

(* Every action of a scan's slot is a step of a slot. *)
LEMMA ScanSteps ==
  ASSUME CommonInv, ScanInv, NEW s \in Slots, ScanSlot(s)
  PROVE  SlotStep(s)
<1>1. Kind = "scan" /\ ScanPlaces /\ ScanBegan /\ ScanMeets /\ ScanCourse
  BY DEF ScanSlot, ScanInv
<1>2. /\ call # NoCall /\ Interval(call) = 3 /\ 0 \in 0 .. Stages
      /\ UnitsOf(Current) = ScanUnits(layout)
      /\ \A u : /\ NeedsOf(Current, u) = ScanNeeds(layout, u)
                /\ AfterOf(Current, u) = ScanAfter(layout, u)
      /\ at \in [Slots -> 0 .. Stages] /\ 0 \in Slots
      /\ cancelled \in BOOLEAN /\ stopped \in BOOLEAN
      /\ \A t \in Slots : t \in job <=> pc[t] = "idle"
  BY <1>1, InScan
<1>3. at = [at EXCEPT ![s] = at[s]] /\ at[s] \in 0 .. Stages
  BY <1>2
<1>4. \A t \in Slots : Rung(t) \in Nat
  BY <1>1, RungsAre
(* A unit begins for the first time: it lies above the rung. *)
<1>5. ASSUME NEW k \in 1 .. 5, <<k, s>> \in began
      PROVE  Rung(s) >= 3 * k - 2
  BY <1>1, <1>5 DEF ScanBegan
<1>6. ASSUME NEW k \in 1 .. 5, pc[s] \in Resting, Rung(s) < 3 * k - 2,
             <<k, s>> \in ScanUnits(layout),
             \/ Excused(<<k, s>>)
             \/ /\ ScanNeeds(layout, <<k, s>>) \subseteq ended
                /\ ScanAfter(layout, <<k, s>>) \subseteq ended \union failed,
             Run(s, <<k, s>>), UNCHANGED <<poolVars, at, done, cancelled, exc, stopped>>
      PROVE  SlotStep(s)
  <2>1. <<k, s>> \notin began
    <3>1. Rung(s) \in Nat /\ 3 * k - 2 \in Nat
      BY <1>4
    <3> QED
      BY <1>5, <1>6, <3>1
  <2>2. Starts(s, <<k, s>>)
    BY <1>2, <1>6, <2>1 DEF Starts
  <2> QED
    BY <1>2, <2>2 DEF SlotStep
<1>7. CASE ScanBegin(s)
  BY <1>2, <1>7 DEF ScanBegin, SlotStep, Begins
<1>8. CASE First(s)
  <2>1. pc[s] \in Resting
    BY <1>8 DEF First, At, Resting
  <2>2. Rung(s) = 0
    BY <1>1, <1>8, ScanWay
  <2>3. <<1, s>> \in ScanUnits(layout)
    BY ScanUnit DEF Pass1
  <2>4. ScanNeeds(layout, <<1, s>>) = {} /\ ScanAfter(layout, <<1, s>>) = {}
    BY DEF ScanNeeds, ScanAfter, Pass2, Fold, Cross, Combine
  <2>5. Run(s, <<1, s>>) /\ UNCHANGED <<poolVars, at, done, cancelled, exc, stopped>>
    BY <1>8 DEF First, Pass1
  <2> QED
    BY <1>6, <2>1, <2>2, <2>3, <2>4, <2>5
<1>9. CASE GatherAll(s) /\ exc = None
  <2>1. pc[s] \in Resting /\ ~Hierarchical /\ pc[s] = "gather"
    BY <1>9 DEF GatherAll, At, Resting
  <2>2. Rung(s) = 3
    BY <1>1, <1>9, ScanWay
  <2>3. s = 0
    BY <1>1, <1>2, <2>1 DEF ScanPlaces
  <2>4. <<2, s>> \in ScanUnits(layout)
    BY <2>1, <2>3, ScanUnit DEF Fold
  <2>5. ScanNeeds(layout, <<2, s>>) \subseteq ended
    <3>1. Rung(0) >= 3
      BY <2>2, <2>3
    <3>2. \A t \in Others(0) : Reached(t, 1)
      BY <1>9, <2>3 DEF GatherAll
    <3> QED
      BY <1>1, <1>9, <2>1, <2>3, <3>1, <3>2, FlatReady DEF Fold
  <2>6. ScanAfter(layout, <<2, s>>) = {}
    BY DEF ScanAfter, Fold, Cross, Combine
  <2>7. Run(s, <<2, s>>) /\ UNCHANGED <<poolVars, at, done, cancelled, exc, stopped>>
    BY <1>9 DEF GatherAll, Fold
  <2> QED
    BY <1>6, <2>1, <2>2, <2>4, <2>5, <2>6, <2>7
<1>10. CASE GatherCluster(s)
  <2>1. pc[s] \in Resting /\ Hierarchical /\ pc[s] = "gather"
    BY <1>10 DEF GatherCluster, At, Resting
  <2>2. Rung(s) = 3
    BY <1>1, <1>10, ScanWay
  <2>3. IsLeader(s) /\ s = Leader(s)
    BY <1>1, <1>2, <2>1, TheLeaders DEF ScanPlaces
  <2>4. <<2, s>> \in ScanUnits(layout)
    BY <2>1, <2>3, ScanUnit DEF Fold
  <2>5. Excused(<<2, s>>) \/ ScanNeeds(layout, <<2, s>>) \subseteq ended
    <3>1. Rung(s) >= 3
      BY <2>2
    <3>2. \A t \in Members(layout[s]) \ {s} : Reached(t, 1)
      BY <1>10 DEF GatherCluster
    <3>3. CASE Thrown
      BY <1>1, <2>1, <3>3 DEF Excused, Thrown, Fold
    <3>4. CASE ~Thrown
      BY <1>1, <2>1, <2>3, <3>1, <3>2, <3>4, FoldReady DEF Fold
    <3> QED
      BY <3>3, <3>4
  <2>6. ScanAfter(layout, <<2, s>>) = {}
    BY DEF ScanAfter, Fold, Cross, Combine
  <2>7. Run(s, <<2, s>>) /\ UNCHANGED <<poolVars, at, done, cancelled, exc, stopped>>
    BY <1>10 DEF GatherCluster, Fold
  <2> QED
    BY <1>6, <2>1, <2>2, <2>4, <2>5, <2>6, <2>7
<1>11. CASE GatherTotals(s)
  <2>1. pc[s] \in Resting /\ pc[s] = "cross"
    BY <1>11 DEF GatherTotals, At, Resting
  <2>2. Rung(s) = 6
    BY <1>1, <1>11, ScanWay
  <2>3. s = 0 /\ Hierarchical
    BY <1>1, <1>2, <2>1 DEF ScanPlaces
  <2>4. <<3, s>> \in ScanUnits(layout)
    BY <2>3, ScanUnit DEF Cross
  <2>5. ScanNeeds(layout, <<3, s>>) = {}
    BY DEF ScanNeeds, Pass2, Fold
  <2>6. Excused(<<3, s>>) \/ ScanAfter(layout, <<3, s>>) \subseteq ended \union failed
    <3>1. Rung(0) >= 6
      BY <2>2, <2>3
    <3>2. \A k \in Clusters \ {0} : cluster[k].stamp >= 1
      BY <1>11 DEF GatherTotals
    <3>3. CASE Thrown
      BY <1>1, <2>3, <3>3 DEF Excused, Thrown, Cross
    <3>4. CASE ~Thrown
      BY <1>1, <2>3, <3>1, <3>2, <3>4, CrossReady DEF Cross
    <3> QED
      BY <3>3, <3>4
  <2>7. Run(s, <<3, s>>) /\ UNCHANGED <<poolVars, at, done, cancelled, exc, stopped>>
    BY <1>11 DEF GatherTotals, Cross
  <2> QED
    BY <1>6, <2>1, <2>2, <2>4, <2>5, <2>6, <2>7
<1>12. CASE StartCombine(s)
  <2>1. pc[s] \in Resting /\ pc[s] = "combine"
    BY <1>12 DEF StartCombine, At, Resting
  <2>2. Rung(s) = 9
    BY <1>1, <1>12, ScanWay
  <2>3. IsLeader(s) /\ s = Leader(s) /\ Hierarchical
    BY <1>1, <1>2, <2>1, TheLeaders DEF ScanPlaces
  <2>4. <<4, s>> \in ScanUnits(layout)
    BY <2>3, ScanUnit DEF Combine
  <2>5. ScanNeeds(layout, <<4, s>>) = {}
    BY DEF ScanNeeds, Pass2, Fold
  <2>6. Excused(<<4, s>>) \/ ScanAfter(layout, <<4, s>>) \subseteq ended \union failed
    <3>1. Rung(s) >= 9
      BY <2>2
    <3>2. CASE Thrown
      BY <1>1, <2>3, <3>2 DEF Excused, Thrown, Combine
    <3>3. CASE ~Thrown
      BY <1>1, <2>3, <3>1, <3>3, CombineReady DEF Combine
    <3> QED
      BY <3>2, <3>3
  <2>7. Run(s, <<4, s>>) /\ UNCHANGED <<poolVars, at, done, cancelled, exc, stopped>>
    BY <1>12 DEF StartCombine, Combine
  <2> QED
    BY <1>6, <2>1, <2>2, <2>4, <2>5, <2>6, <2>7
<1>13. CASE Second(s) /\ ~Cancelling
  <2>1. pc[s] \in Resting
    BY <1>13 DEF Second, At, Resting
  <2>2. Rung(s) = 12
    BY <1>1, <1>13, ScanWay
  <2>3. <<5, s>> \in ScanUnits(layout)
    BY ScanUnit DEF Pass2
  <2>4. ScanNeeds(layout, <<5, s>>) \subseteq ended
    BY <1>1, <1>13, <2>2, SecondReady DEF Pass2, Cancelling
  <2>5. ScanAfter(layout, <<5, s>>) = {}
    BY DEF ScanAfter, Fold, Cross, Combine
  <2>6. Run(s, <<5, s>>) /\ UNCHANGED <<poolVars, at, done, exc, stopped>>
    BY <1>13 DEF Second, RunOrLeave, Pass2
  <2>7. cancelled' = cancelled
    BY <1>2, <1>13 DEF Second, RunOrLeave, Cancelling
  <2> QED
    BY <1>6, <2>1, <2>2, <2>3, <2>4, <2>5, <2>6, <2>7
<1>14. CASE Second(s) /\ Cancelling
  <2>1. Moves(s)
    BY <1>3, <1>14 DEF Second, RunOrLeave, Moves, At, Goto, Resting, poolVars, history, Cancelling
  <2> QED
    BY <1>2, <2>1 DEF SlotStep
<1>15. CASE GatherAll(s) /\ exc # None
  <2>1. Moves(s)
    BY <1>3, <1>15 DEF GatherAll, Moves, At, Goto, Resting, poolVars, history
  <2> QED
    BY <1>2, <2>1 DEF SlotStep
<1>16. CASE FirstStamp(s) \/ SecondStamp(s)
  <2>1. pc[s] \in Resting /\ (\E q \in Resting : Goto(s, q))
    BY <1>16 DEF FirstStamp, SecondStamp, StampAndGo, At, Resting
  <2>2. /\ done' = done \/ \E x \in 0 .. Interval(call) : Stamp(s, x)
        /\ UNCHANGED <<poolVars, at, item, cancelled, exc, stopped, history>>
    BY <1>2, <1>16 DEF FirstStamp, SecondStamp, StampAndGo
  <2>3. Moves(s)
    BY <1>3, <2>1, <2>2 DEF Moves
  <2> QED
    BY <1>2, <2>3 DEF SlotStep
<1>17. CASE \/ PublishTotal(s) \/ Publish(s) \/ SeePublished(s) \/ Ready(s) \/ SeeReady(s)
            \/ Release(s) \/ Drain(s)
  <2>1. pc[s] \in Resting
    BY <1>17 DEF PublishTotal, Publish, SeePublished, Ready, SeeReady, Release, Drain, At, Resting
  <2>2. PICK q \in Resting : Go(s, q)
    BY <1>17 DEF PublishTotal, Publish, SeePublished, Ready, SeeReady, Release, Drain, Resting
  <2>3. Moves(s)
    BY <1>3, <2>1, <2>2 DEF Moves, Go
  <2> QED
    BY <1>2, <2>3 DEF SlotStep
<1>18. CASE FirstOver(s) \/ FoldOver(s) \/ CrossOver(s) \/ CombineOver(s) \/ SecondOver(s)
  <2>1. PICK q \in Resting : Complete(s, q)
    BY <1>18 DEF FirstOver, FoldOver, CrossOver, CombineOver, SecondOver, Resting
  <2> QED
    BY <1>2, <2>1 DEF SlotStep, Ends
<1>19. CASE ScanThrow(s)
  BY <1>2, <1>19 DEF ScanThrow, SlotStep
<1>20. CASE ScanFlag(s)
  <2>1. pc[s] = "flag"
    BY <1>20 DEF ScanFlag, Flag, At
  <2>2. Stage(s) \in 1 .. 5
    BY <1>1, <1>2, <2>1 DEF ScanPlaces, Stage
  <2>3. PICK q \in {"second", "total", "publish", "ready"} : Flag(s, q)
    <3>1. CASE Stage(s) = 1 \/ Stage(s) = 5
      BY <1>20, <3>1 DEF ScanFlag, Pass1, Pass2
    <3>2. CASE Stage(s) = 2
      BY <1>20, <3>2 DEF ScanFlag, Pass1, Pass2, Fold
    <3>3. CASE Stage(s) = 3
      BY <1>20, <3>3 DEF ScanFlag, Pass1, Pass2, Fold, Cross
    <3>4. CASE Stage(s) = 4
      BY <1>20, <3>4 DEF ScanFlag, Pass1, Pass2, Fold, Cross, Combine
    <3> QED
      BY <2>2, <3>1, <3>2, <3>3, <3>4
  <2> QED
    BY <1>2, <2>3 DEF SlotStep, Flags, Resting
<1> QED
  BY <1>7, <1>8, <1>9, <1>10, <1>11, <1>12, <1>13, <1>14, <1>15, <1>16, <1>17, <1>18, <1>19,
     <1>20 DEF ScanSlot

-----------------------------------------------------------------------------
(* Where a slot goes on behind a throw. *)
LEMMA FlagWay ==
  ASSUME CommonInv, ScanInv, Kind = "scan", NEW s \in Slots, ScanFlag(s)
  PROVE  /\ cancelled'
         /\ \/ Rung(s) \in {1, 13} /\ Rung(s)' = 14
            \/ Rung(s) = 4 /\ Rung(s)' = IF Hierarchical THEN 5 ELSE 8
            \/ Rung(s) = 7 /\ Rung(s)' = 8
            \/ Rung(s) = 10 /\ Rung(s)' = 11
         /\ Rung(s) = 1 => Thrown'
<1>1. /\ pc \in [Slots -> Resting \union {"idle", "body", "flag"}]
      /\ \A t \in Slots : t \in job <=> pc[t] = "idle"
  BY InScan
<1>2. pc[s] = "flag" /\ cancelled' /\ failed' = failed
  BY DEF ScanFlag, Flag, At, history
<1>3. Stage(s) \in 1 .. 5 /\ item[s] = <<Stage(s), s>>
  BY <1>1, <1>2 DEF ScanInv, ScanPlaces, Stage
<1>4. Rung(s) = 3 * Stage(s) - 2
  BY <1>2 DEF Rung, Stage
<1>5. Stage(s) = 1 => Thrown'
  <2>1. item[s] \in failed
    BY <1>2 DEF CommonInv, ExcInv
  <2> QED
    BY <1>2, <1>3, <2>1 DEF Thrown, FirstThrown, Pass1
<1>6. CASE Stage(s) = 1 \/ Stage(s) = 5
  <2>1. pc'[s] = "second"
    BY <1>1, <1>6 DEF ScanFlag, Flag, Goto, Pass1, Pass2, Fold, Cross, Combine
  <2>2. Rung(s)' = 14
    BY <2>1 DEF Rung
  <2> QED
    BY <1>2, <1>4, <1>5, <1>6, <2>2
<1>7. CASE Stage(s) = 2
  <2>1. pc'[s] = IF Hierarchical THEN "total" ELSE "publish"
    BY <1>1, <1>7 DEF ScanFlag, Flag, Goto, Pass1, Pass2, Fold, Cross, Combine
  <2>2. Rung(s)' = IF Hierarchical THEN 5 ELSE 8
    BY <2>1 DEF Rung
  <2> QED
    BY <1>2, <1>4, <1>7, <2>2
<1>8. CASE Stage(s) = 3
  <2>1. pc'[s] = "publish"
    BY <1>1, <1>8 DEF ScanFlag, Flag, Goto, Pass1, Pass2, Fold, Cross, Combine
  <2>2. Rung(s)' = 8
    BY <2>1 DEF Rung
  <2> QED
    BY <1>2, <1>4, <1>8, <2>2
<1>9. CASE Stage(s) = 4
  <2>1. pc'[s] = "ready"
    BY <1>1, <1>9 DEF ScanFlag, Flag, Goto, Pass1, Pass2, Fold, Cross, Combine
  <2>2. Rung(s)' = 11
    BY <2>1, SMTT(30) DEF Rung
  <2> QED
    BY <1>2, <1>4, <1>9, <2>2
<1> QED
  BY <1>3, <1>6, <1>7, <1>8, <1>9

(* A slot climbs, the others stay, and each rung is reached in few ways. *)
Passes(r, q, n) == r < n /\ q >= n

LEMMA ScanClimbs ==
  ASSUME CommonInv, ScanInv, NEW s \in Slots, ScanSlot(s)
  PROVE  /\ \A t \in Slots \ {s} : Rung(t)' = Rung(t)
         /\ Rung(s) \in Nat /\ Rung(s)' \in Nat /\ Rung(s)' >= Rung(s)
         /\ Passes(Rung(s), Rung(s)', 1) => First(s)
         /\ Passes(Rung(s), Rung(s)', 14) => SecondOver(s) \/ (Second(s) /\ Cancelling) \/ ScanFlag(s)
         /\ Hierarchical /\ Passes(Rung(s), Rung(s)', 12) => IsLeader(s) \/ SeeReady(s) \/ ScanFlag(s)
         /\ Hierarchical /\ ~Thrown' /\ IsLeader(s) =>
              /\ Passes(Rung(s), Rung(s)', 4) => GatherCluster(s)
              /\ Passes(Rung(s), Rung(s)', 7) => s # 0 \/ GatherTotals(s)
              /\ Passes(Rung(s), Rung(s)', 9) => Publish(s) \/ SeePublished(s)
              /\ Passes(Rung(s), Rung(s)', 10) => StartCombine(s)
         /\ ~Hierarchical =>
              /\ s = 0 /\ Passes(Rung(s), Rung(s)', 4) => GatherAll(s) \/ ScanFlag(s)
              /\ Passes(Rung(s), Rung(s)', 9) => Publish(s) \/ SeePublished(s) \/ ScanFlag(s)
<1>1. Kind = "scan" /\ ScanPlaces /\ SlotStep(s)
  BY ScanSteps DEF ScanSlot, ScanInv
<1>2. \A t \in Slots : t \in job <=> pc[t] = "idle"
  BY <1>1, InScan
<1>3. \A t \in Slots \ {s} : Rung(t)' = Rung(t)
  BY <1>1, OthersKeep DEF Rung
<1>4. Rung(s) \in Nat
  BY <1>1, RungsAre
<1> DEFINE Way ==
      /\ Rung(s)' \in Nat /\ Rung(s)' >= Rung(s)
      /\ Passes(Rung(s), Rung(s)', 1) => First(s)
      /\ Passes(Rung(s), Rung(s)', 14) => SecondOver(s) \/ (Second(s) /\ Cancelling) \/ ScanFlag(s)
      /\ Hierarchical /\ Passes(Rung(s), Rung(s)', 12) => IsLeader(s) \/ SeeReady(s) \/ ScanFlag(s)
      /\ Hierarchical /\ ~Thrown' /\ IsLeader(s) =>
           /\ Passes(Rung(s), Rung(s)', 4) => GatherCluster(s)
           /\ Passes(Rung(s), Rung(s)', 7) => s # 0 \/ GatherTotals(s)
           /\ Passes(Rung(s), Rung(s)', 9) => Publish(s) \/ SeePublished(s)
           /\ Passes(Rung(s), Rung(s)', 10) => StartCombine(s)
      /\ ~Hierarchical =>
           /\ s = 0 /\ Passes(Rung(s), Rung(s)', 4) => GatherAll(s) \/ ScanFlag(s)
           /\ Passes(Rung(s), Rung(s)', 9) => Publish(s) \/ SeePublished(s) \/ ScanFlag(s)
<1> SUFFICES Way
  BY <1>3, <1>4
<1>5. CASE ScanBegin(s)
  <2>1. Rung(s) = 0 /\ Rung(s)' = 0
    BY <1>1, <1>5, ScanWay
  <2> QED
    BY <2>1 DEF Passes
<1>6. CASE First(s)
  <2>1. Rung(s) = 0 /\ Rung(s)' = 1
    BY <1>1, <1>6, ScanWay
  <2> QED
    BY <1>6, <2>1 DEF Passes
<1>7. CASE FirstOver(s)
  <2>1. Rung(s) = 1 /\ Rung(s)' = 2
    BY <1>1, <1>7, ScanWay
  <2> QED
    BY <2>1 DEF Passes
<1>8. CASE FirstStamp(s)
  <2>1. Rung(s) = 2 /\ Rung(s)' = IF Hierarchical \/ s = 0 THEN 3 ELSE 8
    BY <1>1, <1>8, ScanWay
  <2> QED
    BY <2>1 DEF Passes
<1>9. CASE ScanThrow(s)
  <2>1. Rung(s)' = Rung(s)
    BY <1>1, <1>9, ScanWay
  <2> QED
    BY <1>4, <2>1 DEF Passes
<1>10. CASE ScanFlag(s)
  <2>1. \/ Rung(s) \in {1, 13} /\ Rung(s)' = 14
        \/ Rung(s) = 4 /\ Rung(s)' = IF Hierarchical THEN 5 ELSE 8
        \/ Rung(s) = 7 /\ Rung(s)' = 8
        \/ Rung(s) = 10 /\ Rung(s)' = 11
    BY <1>1, <1>10, FlagWay
  <2>2. Rung(s) = 1 => Thrown'
    BY <1>1, <1>10, FlagWay
  <2>3. CASE Rung(s) = 1 /\ Rung(s)' = 14
    BY <1>10, <2>2, <2>3 DEF Passes
  <2>4. CASE Rung(s) = 13 /\ Rung(s)' = 14
    BY <1>10, <2>4 DEF Passes
  <2>5. CASE Rung(s) = 4 /\ Rung(s)' = IF Hierarchical THEN 5 ELSE 8
    BY <1>10, <2>5 DEF Passes
  <2>6. CASE Rung(s) = 7 /\ Rung(s)' = 8
    BY <1>10, <2>6 DEF Passes
  <2>7. CASE Rung(s) = 10 /\ Rung(s)' = 11
    BY <1>10, <2>7 DEF Passes
  <2> QED
    BY <2>1, <2>3, <2>4, <2>5, <2>6, <2>7
<1>11. CASE GatherAll(s)
  <2>1. Rung(s) = 3 /\ Rung(s)' = IF exc # None THEN 8 ELSE 4
    BY <1>1, <1>11, ScanWay
  <2>2. ~Hierarchical
    BY <1>11 DEF GatherAll
  <2> QED
    BY <1>11, <2>1, <2>2 DEF Passes
<1>12. CASE GatherCluster(s)
  <2>1. Rung(s) = 3 /\ Rung(s)' = 4
    BY <1>1, <1>12, ScanWay
  <2>2. Hierarchical
    BY <1>12 DEF GatherCluster
  <2> QED
    BY <1>12, <2>1, <2>2 DEF Passes
<1>13. CASE FoldOver(s)
  <2>1. Rung(s) = 4 /\ Rung(s)' = IF Hierarchical THEN 5 ELSE 8
    BY <1>1, <1>13, ScanWay
  <2> QED
    BY <2>1 DEF Passes
<1>14. CASE PublishTotal(s)
  <2>1. Rung(s) = 5 /\ Rung(s)' = IF s = 0 THEN 6 ELSE 8
    BY <1>1, <1>14, ScanWay
  <2> QED
    BY <2>1 DEF Passes
<1>15. CASE GatherTotals(s)
  <2>1. Rung(s) = 6 /\ Rung(s)' = 7
    BY <1>1, <1>15, ScanWay
  <2> QED
    BY <1>15, <2>1 DEF Passes
<1>16. CASE CrossOver(s)
  <2>1. Rung(s) = 7 /\ Rung(s)' = 8
    BY <1>1, <1>16, ScanWay
  <2> QED
    BY <2>1 DEF Passes
<1>17. CASE Publish(s) \/ SeePublished(s)
  <2>1. Rung(s) = 8 /\ Rung(s)' = IF Hierarchical THEN 9 ELSE 12
    BY <1>1, <1>17, ScanWay
  <2> QED
    BY <1>17, <2>1 DEF Passes
<1>18. CASE StartCombine(s)
  <2>1. Rung(s) = 9 /\ Rung(s)' = 10
    BY <1>1, <1>18, ScanWay
  <2> QED
    BY <1>18, <2>1 DEF Passes
<1>19. CASE CombineOver(s)
  <2>1. Rung(s) = 10 /\ Rung(s)' = 11
    BY <1>1, <1>19, ScanWay
  <2> QED
    BY <2>1 DEF Passes
<1>20. CASE Ready(s)
  <2>1. Rung(s) = 11 /\ Rung(s)' = 12
    BY <1>1, <1>20, ScanWay
  <2>2. IsLeader(s)
    BY <1>1, <1>2, <1>20 DEF Ready, At, ScanPlaces
  <2> QED
    BY <2>1, <2>2 DEF Passes
<1>21. CASE SeeReady(s)
  <2>1. Rung(s) = 3 /\ Rung(s)' = 12
    BY <1>1, <1>21, ScanWay
  <2>2. Hierarchical /\ ~IsLeader(s)
    BY <1>1, <1>2, <1>21 DEF SeeReady, At, ScanPlaces
  <2> QED
    BY <1>21, <2>1, <2>2 DEF Passes
<1>22. CASE Second(s)
  <2>1. Rung(s) = 12 /\ Rung(s)' = IF Cancelling THEN 14 ELSE 13
    BY <1>1, <1>22, ScanWay
  <2> QED
    BY <1>22, <2>1 DEF Passes
<1>23. CASE SecondOver(s)
  <2>1. Rung(s) = 13 /\ Rung(s)' = 14
    BY <1>1, <1>23, ScanWay
  <2> QED
    BY <1>23, <2>1 DEF Passes
<1>24. CASE SecondStamp(s)
  <2>1. Rung(s) = 14 /\ Rung(s)' \in {15, 17}
    BY <1>1, <1>24, ScanWay
  <2> QED
    BY <2>1 DEF Passes
<1>25. CASE Release(s)
  <2>1. Rung(s) = 15 /\ Rung(s)' = 16
    BY <1>1, <1>25, ScanWay
  <2> QED
    BY <2>1 DEF Passes
<1>26. CASE Drain(s)
  <2>1. Rung(s) = 16 /\ Rung(s)' = 17
    BY <1>1, <1>26, ScanWay
  <2> QED
    BY <2>1 DEF Passes
<1> QED
  BY <1>5, <1>6, <1>7, <1>8, <1>9, <1>10, <1>11, <1>12, <1>13, <1>14, <1>15, <1>16, <1>17, <1>18,
     <1>19, <1>20, <1>21, <1>22, <1>23, <1>24, <1>25, <1>26 DEF ScanSlot

(* The layout stays, and with it who leads. *)
LEMMA LayoutStays ==
  ASSUME layout' = layout
  PROVE  /\ Hierarchical' = Hierarchical /\ Clusters' = Clusters
         /\ \A t \in Slots : /\ IsLeader(t)' = IsLeader(t) /\ Leader(t)' = Leader(t)
                             /\ layout'[t] = layout[t] /\ Members(layout[t])' = Members(layout[t])
BY DEF Hierarchical, IsLeader, Leader, Clusters, Members

(* What has thrown stays so until the call returns. *)
LEMMA ThrownStays ==
  ASSUME CommonInv, NEW s \in Slots, SlotStep(s), ~Thrown'
  PROVE  ~Thrown
BY OthersKeep DEF Thrown, FirstThrown

(* Where a slot goes on, also when it gives up. *)
LEMMA ScanPlacesKept ==
  ASSUME CommonInv, ScanInv, NEW s \in Slots, ScanSlot(s)
  PROVE  ScanPlaces'
<1>1. Kind = "scan" /\ ScanPlaces /\ SlotStep(s) /\ call # NoCall
  BY ScanSteps DEF ScanSlot, ScanInv, SlotStep
<1>2. /\ pc \in [Slots -> Resting \union {"idle", "body", "flag"}]
      /\ item \in [Slots -> Int \X Int] /\ 0 \in Slots
      /\ cancelled \in BOOLEAN /\ stopped \in BOOLEAN
      /\ \A t \in Slots : t \in job <=> pc[t] = "idle"
  BY <1>1, InScan
<1>3. /\ layout' = layout /\ (cancelled => cancelled')
      /\ \A t \in Slots \ {s} : /\ pc'[t] = pc[t] /\ item'[t] = item[t]
                                /\ t \in job' <=> t \in job
  BY <1>1, OthersKeep
<1>4. /\ Hierarchical' = Hierarchical
      /\ \A t \in Slots : IsLeader(t)' = IsLeader(t)
  BY <1>3, LayoutStays
<1>5. IsLeader(0)
  BY TheLeaders
<1>7. pc[s] # "idle" =>
        /\ pc[s] \in {"body", "flag"} => item[s][1] \in 1 .. 5 /\ item[s] = <<item[s][1], s>>
        /\ pc[s] = "gather" \/ InUnit(s, Fold) => IF Hierarchical THEN IsLeader(s) ELSE s = 0
        /\ pc[s] \in {"total", "combine", "ready"} \/ InUnit(s, Combine) => Hierarchical /\ IsLeader(s)
        /\ pc[s] = "published" /\ Hierarchical => IsLeader(s)
        /\ pc[s] = "member" => Hierarchical /\ ~IsLeader(s)
        /\ pc[s] = "cross" \/ InUnit(s, Cross) => Hierarchical /\ s = 0
        /\ pc[s] = "publish" => s = 0
        /\ pc[s] \in {"release", "drain"} => s = 0 /\ cancelled
  BY <1>1, <1>2 DEF ScanPlaces
<1> DEFINE Stands(q, u, c) ==
      /\ q \in {"wait", "body", "flag", "first", "gather", "member", "published", "total",
                "cross", "publish", "combine", "ready", "pass2", "second", "release",
                "drain", "out"}
      /\ q \in {"body", "flag"} =>
           /\ u[1] \in 1 .. 5 /\ u = <<u[1], s>>
           /\ u[1] = Fold => IF Hierarchical THEN IsLeader(s) ELSE s = 0
           /\ u[1] = Cross => Hierarchical /\ s = 0
           /\ u[1] = Combine => Hierarchical /\ IsLeader(s)
      /\ q = "gather" => IF Hierarchical THEN IsLeader(s) ELSE s = 0
      /\ q \in {"total", "combine", "ready"} => Hierarchical /\ IsLeader(s)
      /\ q = "published" /\ Hierarchical => IsLeader(s)
      /\ q = "member" => Hierarchical /\ ~IsLeader(s)
      /\ q = "cross" => Hierarchical /\ s = 0
      /\ q = "publish" => s = 0
      /\ q \in {"release", "drain"} => s = 0 /\ c
<1>8. SUFFICES Stands(pc'[s], item'[s], cancelled')
  <2> SUFFICES ASSUME NEW t \in Slots, t \notin job', Stands(pc'[s], item'[s], cancelled')
               PROVE
        /\ pc'[t] \in {"wait", "body", "flag", "first", "gather", "member", "published", "total",
                       "cross", "publish", "combine", "ready", "pass2", "second", "release",
                       "drain", "out"}
        /\ pc'[t] \in {"body", "flag"} => item'[t][1] \in 1 .. 5 /\ item'[t] = <<item'[t][1], t>>
        /\ pc'[t] = "gather" \/ InUnit(t, Fold)' => IF Hierarchical THEN IsLeader(t) ELSE t = 0
        /\ pc'[t] \in {"total", "combine", "ready"} \/ InUnit(t, Combine)' => Hierarchical /\ IsLeader(t)
        /\ pc'[t] = "published" /\ Hierarchical => IsLeader(t)
        /\ pc'[t] = "member" => Hierarchical /\ ~IsLeader(t)
        /\ pc'[t] = "cross" \/ InUnit(t, Cross)' => Hierarchical /\ t = 0
        /\ pc'[t] = "publish" => t = 0
        /\ pc'[t] \in {"release", "drain"} => t = 0 /\ cancelled'
    BY <1>4 DEF ScanPlaces
  <2>2. CASE t # s
    BY <1>1, <1>2, <1>3, <2>2 DEF ScanPlaces, InUnit
  <2>3. CASE t = s
    BY <2>3 DEF InUnit
  <2> QED
    BY <2>2, <2>3
<1> HIDE DEF Stands
<1>9. CASE ScanBegin(s)
  <2>1. pc'[s] = "wait"
    BY <1>2, <1>9 DEF ScanBegin, Begin, Goto
  <2> QED
    BY <2>1 DEF Stands
<1>10. CASE First(s)
  <2>1. pc'[s] = "body" /\ item'[s] = <<1, s>>
    BY <1>2, <1>10 DEF First, Run, Goto, Pass1
  <2> QED
    BY <2>1 DEF Stands, Fold, Cross, Combine
<1>11. CASE FirstOver(s)
  <2>1. pc'[s] = "first"
    BY <1>2, <1>11 DEF FirstOver, Complete, Goto
  <2> QED
    BY <2>1 DEF Stands
<1>12. CASE FirstStamp(s)
  <2>1. pc'[s] = IF Hierarchical THEN IF IsLeader(s) THEN "gather" ELSE "member"
                 ELSE IF s = 0 THEN "gather" ELSE "published"
    BY <1>2, <1>12 DEF FirstStamp, StampAndGo, Goto
  <2> QED
    BY <2>1 DEF Stands
<1>13. CASE ScanThrow(s)
  <2>1. pc[s] = "body" /\ pc'[s] = "flag" /\ item'[s] = item[s]
    BY <1>2, <1>13 DEF ScanThrow, Throw, Goto, At
  <2> QED
    BY <1>7, <2>1 DEF Stands, InUnit
<1>14. CASE ScanFlag(s)
  <2>1. pc[s] = "flag" /\ item[s][1] \in 1 .. 5
    BY <1>7, <1>14 DEF ScanFlag, Flag, At
  <2>2. CASE item[s][1] = 1 \/ item[s][1] = 5
    <3>1. pc'[s] = "second"
      BY <1>2, <1>14, <2>2 DEF ScanFlag, Flag, Goto, Stage, Pass1, Pass2, Fold, Cross, Combine
    <3> QED
      BY <3>1 DEF Stands
  <2>3. CASE item[s][1] = 2
    <3>1. pc'[s] = IF Hierarchical THEN "total" ELSE "publish"
      BY <1>2, <1>14, <2>3 DEF ScanFlag, Flag, Goto, Stage, Pass1, Pass2, Fold, Cross, Combine
    <3>2. IF Hierarchical THEN IsLeader(s) ELSE s = 0
      BY <1>7, <2>1, <2>3 DEF InUnit, Fold
    <3> QED
      BY <3>1, <3>2 DEF Stands
  <2>4. CASE item[s][1] = 3
    <3>1. pc'[s] = "publish"
      BY <1>2, <1>14, <2>4 DEF ScanFlag, Flag, Goto, Stage, Pass1, Pass2, Fold, Cross, Combine
    <3>2. s = 0
      BY <1>7, <2>1, <2>4 DEF InUnit, Cross
    <3> QED
      BY <3>1, <3>2 DEF Stands
  <2>5. CASE item[s][1] = 4
    <3>1. pc'[s] = "ready"
      BY <1>2, <1>14, <2>5 DEF ScanFlag, Flag, Goto, Stage, Pass1, Pass2, Fold, Cross, Combine
    <3>2. Hierarchical /\ IsLeader(s)
      BY <1>7, <2>1, <2>5 DEF InUnit, Combine
    <3> QED
      BY <3>1, <3>2 DEF Stands
  <2> QED
    BY <2>1, <2>2, <2>3, <2>4, <2>5
<1>15. CASE GatherAll(s)
  <2>1. pc[s] = "gather" /\ ~Hierarchical
    BY <1>15 DEF GatherAll, At
  <2>2. s = 0
    BY <1>7, <2>1
  <2>3. pc'[s] = "publish" \/ (pc'[s] = "body" /\ item'[s] = <<2, s>>)
    BY <1>2, <1>15 DEF GatherAll, Run, Goto, Fold
  <2> QED
    BY <2>1, <2>2, <2>3 DEF Stands, Fold, Cross, Combine
<1>16. CASE GatherCluster(s)
  <2>1. pc[s] = "gather" /\ Hierarchical
    BY <1>16 DEF GatherCluster, At
  <2>2. IsLeader(s)
    BY <1>7, <2>1
  <2>3. pc'[s] = "body" /\ item'[s] = <<2, s>>
    BY <1>2, <1>16 DEF GatherCluster, Run, Goto, Fold
  <2> QED
    BY <2>1, <2>2, <2>3 DEF Stands, Fold, Cross, Combine
<1>17. CASE FoldOver(s)
  <2>1. pc[s] = "body" /\ item[s][1] = Fold
    BY <1>17 DEF FoldOver, Complete, At, Stage
  <2>2. IF Hierarchical THEN IsLeader(s) ELSE s = 0
    BY <1>7, <2>1 DEF InUnit
  <2>3. pc'[s] = IF Hierarchical THEN "total" ELSE "publish"
    BY <1>2, <1>17 DEF FoldOver, Complete, Goto
  <2> QED
    BY <2>2, <2>3 DEF Stands
<1>18. CASE PublishTotal(s)
  <2>1. Hierarchical /\ IsLeader(s)
    BY <1>7, <1>18 DEF PublishTotal, At
  <2>2. pc'[s] = IF s = 0 THEN "cross" ELSE "published"
    BY <1>2, <1>18 DEF PublishTotal, Go, Goto
  <2> QED
    BY <2>1, <2>2 DEF Stands
<1>19. CASE GatherTotals(s)
  <2>1. Hierarchical /\ s = 0
    BY <1>7, <1>19 DEF GatherTotals, At
  <2>2. pc'[s] = "body" /\ item'[s] = <<3, s>>
    BY <1>2, <1>19 DEF GatherTotals, Run, Goto, Cross
  <2> QED
    BY <2>1, <2>2 DEF Stands, Fold, Cross, Combine
<1>20. CASE CrossOver(s)
  <2>1. pc[s] = "body" /\ item[s][1] = Cross
    BY <1>20 DEF CrossOver, Complete, At, Stage
  <2>2. s = 0
    BY <1>7, <2>1 DEF InUnit
  <2>3. pc'[s] = "publish"
    BY <1>2, <1>20 DEF CrossOver, Complete, Goto
  <2> QED
    BY <2>2, <2>3 DEF Stands
<1>21. CASE Publish(s) \/ SeePublished(s)
  <2>1. pc[s] = "publish" \/ pc[s] = "published"
    BY <1>21 DEF Publish, SeePublished, At
  <2>2. Hierarchical => IsLeader(s)
    BY <1>5, <1>7, <2>1
  <2>3. pc'[s] = IF Hierarchical THEN "combine" ELSE "pass2"
    BY <1>2, <1>21 DEF Publish, SeePublished, Go, Goto
  <2> QED
    BY <2>2, <2>3 DEF Stands
<1>22. CASE StartCombine(s)
  <2>1. Hierarchical /\ IsLeader(s)
    BY <1>7, <1>22 DEF StartCombine, At
  <2>2. pc'[s] = "body" /\ item'[s] = <<4, s>>
    BY <1>2, <1>22 DEF StartCombine, Run, Goto, Combine
  <2> QED
    BY <2>1, <2>2 DEF Stands, Fold, Cross, Combine
<1>23. CASE CombineOver(s)
  <2>1. pc[s] = "body" /\ item[s][1] = Combine
    BY <1>23 DEF CombineOver, Complete, At, Stage
  <2>2. Hierarchical /\ IsLeader(s)
    BY <1>7, <2>1 DEF InUnit
  <2>3. pc'[s] = "ready"
    BY <1>2, <1>23 DEF CombineOver, Complete, Goto
  <2> QED
    BY <2>2, <2>3 DEF Stands
<1>24. CASE Ready(s) \/ SeeReady(s)
  <2>1. pc'[s] = "pass2"
    BY <1>2, <1>24 DEF Ready, SeeReady, Go, Goto
  <2> QED
    BY <2>1 DEF Stands
<1>25. CASE Second(s)
  <2>1. pc'[s] = "second" \/ (pc'[s] = "body" /\ item'[s] = <<5, s>>)
    BY <1>2, <1>25 DEF Second, RunOrLeave, Run, Goto, Pass2
  <2> QED
    BY <2>1 DEF Stands, Fold, Cross, Combine
<1>26. CASE SecondOver(s)
  <2>1. pc'[s] = "second"
    BY <1>2, <1>26 DEF SecondOver, Complete, Goto
  <2> QED
    BY <2>1 DEF Stands
<1>27. CASE SecondStamp(s)
  <2>1. pc[s] = "second" /\ cancelled' = cancelled
    BY <1>27 DEF SecondStamp, StampAndGo, At
  <2>2. pc'[s] = IF s = 0 /\ <<Pass1, s>> \in failed THEN "release" ELSE "out"
    BY <1>2, <1>27 DEF SecondStamp, StampAndGo, Goto
  <2>3. ASSUME s = 0, <<Pass1, s>> \in failed
        PROVE  cancelled
    <3> SUFFICES ASSUME ~cancelled PROVE FALSE
      OBVIOUS
    <3>1. PICK t \in Slots : pc[t] = "flag" /\ item[t] = <<Pass1, s>>
      BY <1>1, <2>3 DEF CommonInv, ExcInv
    <3>2. item[t] = <<item[t][1], t>>
      BY <1>1, <1>2, <3>1 DEF ScanPlaces
    <3> QED
      BY <2>1, <3>1, <3>2
  <2>4. CASE s = 0 /\ <<Pass1, s>> \in failed
    <3>1. pc'[s] = "release"
      BY <2>2, <2>4
    <3> QED
      BY <2>1, <2>3, <2>4, <3>1 DEF Stands
  <2>5. CASE ~(s = 0 /\ <<Pass1, s>> \in failed)
    <3>1. pc'[s] = "out"
      BY <2>2, <2>5
    <3> QED
      BY <3>1 DEF Stands
  <2> QED
    BY <2>4, <2>5
<1>28. CASE Release(s)
  <2>1. pc[s] = "release" /\ pc'[s] = "drain"
    BY <1>2, <1>28 DEF Release, Go, Goto, At
  <2>2. s = 0 /\ cancelled'
    BY <1>3, <1>7, <2>1
  <2> QED
    BY <2>1, <2>2 DEF Stands
<1>29. CASE Drain(s)
  <2>1. pc'[s] = "out"
    BY <1>2, <1>29 DEF Drain, Go, Goto
  <2> QED
    BY <2>1 DEF Stands
<1> QED
  BY <1>9, <1>10, <1>11, <1>12, <1>13, <1>14, <1>15, <1>16, <1>17, <1>18, <1>19, <1>20, <1>21,
     <1>22, <1>23, <1>24, <1>25, <1>26, <1>27, <1>28, <1>29 DEF ScanSlot

(* What begins lies on the rung that its slot climbs to. *)
LEMMA ScanBeganKept ==
  ASSUME CommonInv, ScanInv, NEW s \in Slots, ScanSlot(s)
  PROVE  ScanBegan'
<1>1. /\ Kind = "scan" /\ ScanPlaces /\ ScanBegan /\ SlotStep(s) /\ call # NoCall
      /\ ScanPlaces' /\ CommonInv' /\ Kind' = "scan"
  BY ScanSteps, ScanPlacesKept, SlotKeeps, OthersKeep DEF ScanSlot, ScanInv, SlotStep
<1>2. /\ pc \in [Slots -> Resting \union {"idle", "body", "flag"}]
      /\ item \in [Slots -> Int \X Int] /\ 0 \in Slots
      /\ UnitsOf(Current) = ScanUnits(layout)
  BY <1>1, InScan
<1>3. layout' = layout /\ began \subseteq began' /\ (~Thrown' => ~Thrown)
  BY <1>1, OthersKeep, ThrownStays
<1>4. /\ Hierarchical' = Hierarchical
      /\ \A t \in Slots : IsLeader(t)' = IsLeader(t)
  BY <1>3, LayoutStays
<1>5. /\ \A t \in Slots \ {s} : Rung(t)' = Rung(t)
      /\ Rung(s) \in Nat /\ Rung(s)' \in Nat /\ Rung(s)' >= Rung(s)
  BY ScanClimbs
<1>6. \A t \in Slots : Rung(t) \in Nat /\ Rung(t)' \in Nat /\ Rung(t)' >= Rung(t)
  <2>1. \A t \in Slots : Rung(t) \in Nat
    BY <1>1, RungsAre
  <2> QED
    BY <1>5, <2>1
<1>7. ASSUME NEW u \in began', u \notin began
      PROVE  /\ u[1] \in 1 .. 5 /\ u = <<u[1], s>>
             /\ Rung(s)' = 3 * u[1] - 2
  <2>1. Starts(s, u)
    BY <1>1, <1>7 DEF SlotStep, Begins, Begin, Moves, Starts, Run, Ends, Complete, Throw, Flags, Flag,
       history
  <2>2. pc'[s] = "body" /\ item'[s] = u
    BY <1>2, <2>1 DEF Starts, Run, Goto
  <2>3. \A t \in Slots : t \in job' <=> pc'[t] = "idle"
    BY <1>1 DEF CommonInv, ShareInv, Kind
  <2>4. item'[s][1] \in 1 .. 5 /\ item'[s] = <<item'[s][1], s>>
    BY <1>1, <2>2, <2>3 DEF ScanPlaces
  <2>5. Rung(s)' = 3 * item'[s][1] - 2
    BY <2>2 DEF Rung
  <2> QED
    BY <2>2, <2>4, <2>5
<1>8. ASSUME NEW u \in began'
      PROVE  /\ u[1] \in 1 .. 5 /\ u[2] \in Slots /\ u = <<u[1], u[2]>>
             /\ \A t \in Slots : t = u[2] => Rung(t)' >= 3 * u[1] - 2
  <2>1. CASE u \in began
    <3>1. /\ u[1] \in 1 .. 5 /\ u[2] \in Slots /\ u = <<u[1], u[2]>>
          /\ Rung(u[2]) >= 3 * u[1] - 2
      BY <1>1, <2>1 DEF ScanBegan
    <3>2. ASSUME NEW t \in Slots, t = u[2]
          PROVE  Rung(t)' >= 3 * u[1] - 2
      <4>1. Rung(t) >= 3 * u[1] - 2
        BY <3>1, <3>2
      <4>2. Rung(t) \in Nat /\ Rung(t)' \in Nat /\ Rung(t)' >= Rung(t)
        BY <1>6
      <4>3. 3 * u[1] - 2 \in Int
        BY <3>1
      <4> QED
        BY <4>1, <4>2, <4>3
    <3> QED
      BY <3>1, <3>2
  <2>2. CASE u \notin began
    <3>1. /\ u[1] \in 1 .. 5 /\ u = <<u[1], s>> /\ Rung(s)' = 3 * u[1] - 2
      BY <1>7, <2>2
    <3>2. u[2] = s
      BY <3>1
    <3>3. Rung(s)' >= 3 * u[1] - 2
      BY <3>1
    <3> QED
      BY <3>1, <3>2, <3>3
  <2> QED
    BY <2>1, <2>2
<1>9. \A u \in began' : Rung(u[2])' >= 3 * u[1] - 2
  <2> SUFFICES ASSUME NEW u \in began' PROVE Rung(u[2])' >= 3 * u[1] - 2
    OBVIOUS
  <2>1. PICK t \in Slots : t = u[2]
    BY <1>8
  <2>2. Rung(t)' >= 3 * u[1] - 2
    BY <1>8, <2>1
  <2> QED
    BY <2>1, <2>2
<1>10. ASSUME NEW t \in Slots, Rung(t)' >= 1
       PROVE  <<Pass1, t>> \in began'
  <2>1. CASE Rung(t) >= 1
    BY <1>1, <1>3, <2>1 DEF ScanBegan
  <2>2. CASE Rung(t) < 1
    <3>1. t = s /\ First(s)
      <4>1. t = s
        BY <1>5, <1>6, <1>10, <2>2
      <4>2. Passes(Rung(s), Rung(s)', 1)
        BY <1>10, <2>2, <4>1 DEF Passes
      <4> QED
        BY <4>1, <4>2, ScanClimbs
    <3> QED
      BY <3>1 DEF First, Run
  <2> QED
    BY <1>6, <2>1, <2>2
<1>11. ASSUME Hierarchical, ~Thrown', NEW t \in Slots, IsLeader(t), Rung(t)' >= 4
       PROVE  <<Fold, t>> \in began'
  <2>1. CASE Rung(t) >= 4
    BY <1>1, <1>3, <1>11, <2>1 DEF ScanBegan
  <2>2. CASE Rung(t) < 4
    <3>1. t = s
      BY <1>5, <1>6, <1>11, <2>2
    <3>2. Passes(Rung(s), Rung(s)', 4)
      BY <1>11, <2>2, <3>1 DEF Passes
    <3>3. GatherCluster(s)
      BY <1>11, <3>1, <3>2, ScanClimbs
    <3> QED
      BY <3>1, <3>3 DEF GatherCluster, Run
  <2> QED
    BY <1>6, <2>1, <2>2
<1>12. ASSUME Hierarchical, ~Thrown', NEW t \in Slots, IsLeader(t), Rung(t)' >= 10
       PROVE  <<Combine, t>> \in began'
  <2>1. CASE Rung(t) >= 10
    BY <1>1, <1>3, <1>12, <2>1 DEF ScanBegan
  <2>2. CASE Rung(t) < 10
    <3>1. t = s
      BY <1>5, <1>6, <1>12, <2>2
    <3>2. Passes(Rung(s), Rung(s)', 10)
      BY <1>12, <2>2, <3>1 DEF Passes
    <3>3. StartCombine(s)
      BY <1>12, <3>1, <3>2, ScanClimbs
    <3> QED
      BY <3>1, <3>3 DEF StartCombine, Run
  <2> QED
    BY <1>6, <2>1, <2>2
<1>13. ASSUME Hierarchical, ~Thrown', Rung(0)' >= 7
       PROVE  <<Cross, 0>> \in began'
  <2>1. CASE Rung(0) >= 7
    BY <1>1, <1>3, <1>13, <2>1 DEF ScanBegan
  <2>2. CASE Rung(0) < 7
    <3>1. s = 0
      BY <1>2, <1>5, <1>6, <1>13, <2>2
    <3>2. Passes(Rung(s), Rung(s)', 7)
      BY <1>13, <2>2, <3>1 DEF Passes
    <3>3. GatherTotals(s)
      BY <1>13, <3>1, <3>2, ScanClimbs, TheLeaders
    <3> QED
      BY <3>1, <3>3 DEF GatherTotals, Run
  <2>3. Rung(0) \in Nat
    BY <1>2, <1>6
  <2> QED
    BY <2>1, <2>2, <2>3
<1>14. \A u \in began' : /\ u[1] \in 1 .. 5 /\ u[2] \in Slots /\ u = <<u[1], u[2]>>
                         /\ Rung(u[2])' >= 3 * u[1] - 2
  BY <1>8, <1>9
<1> QED
  BY <1>4, <1>10, <1>11, <1>12, <1>13, <1>14 DEF ScanBegan

(* What the slots learn of each other is true, and stays so. *)
LEMMA ScanMeetsKept ==
  ASSUME CommonInv, ScanInv, NEW s \in Slots, ScanSlot(s)
  PROVE  ScanMeets'
<1>1. /\ Kind = "scan" /\ ScanPlaces /\ ScanBegan /\ ScanMeets /\ SlotStep(s) /\ call # NoCall
      /\ CommonInv' /\ Kind' = "scan"
  BY ScanSteps, SlotKeeps, OthersKeep DEF ScanSlot, ScanInv, SlotStep
<1>2. /\ 0 \in Slots /\ Line = "chain" /\ "chain" \in Lines
      /\ done \in [Lines -> [Slots -> Nat]] /\ epochBase \in Nat
      /\ \A t \in Slots : t \in job <=> pc[t] = "idle"
  BY <1>1, InScan
<1>3. /\ layout' = layout /\ epochBase' = epochBase /\ Line' = Line
      /\ \A t \in Slots \ {s} : \A j : Reached(t, j)' <=> Reached(t, j)
      /\ ~Thrown' => ~Thrown
  BY <1>1, OthersKeep, ThrownStays
<1>4. /\ Hierarchical' = Hierarchical
      /\ \A t \in Slots : /\ IsLeader(t)' = IsLeader(t) /\ Leader(t)' = Leader(t)
                          /\ layout'[t] = layout[t]
  BY <1>3, LayoutStays
<1>5. /\ layout \in [Slots -> Slots]
      /\ \A t \in Slots : /\ Leader(t) \in Slots /\ IsLeader(Leader(t)) /\ layout[Leader(t)] = layout[t]
                          /\ IsLeader(t) <=> t = Leader(t)
      /\ \A t, u \in Slots : layout[t] = layout[u] => Leader(t) = Leader(u)
      /\ IsLeader(0)
  BY TheLeaders
<1>6. \A t \in Slots : /\ Rung(t) \in Nat /\ Rung(t)' \in Nat /\ Rung(t)' >= Rung(t)
                       /\ t # s => Rung(t)' = Rung(t)
  <2>1. \A t \in Slots : Rung(t) \in Nat
    BY <1>1, RungsAre
  <2>2. /\ \A t \in Slots \ {s} : Rung(t)' = Rung(t)
        /\ Rung(s) \in Nat /\ Rung(s)' \in Nat /\ Rung(s)' >= Rung(s)
    BY ScanClimbs
  <2> QED
    BY <2>1, <2>2
<1>7. ASSUME NEW t \in Slots, NEW n \in Nat, Rung(t) >= n
      PROVE  Rung(t)' >= n
  <2>1. Rung(t) \in Nat /\ Rung(t)' \in Nat /\ Rung(t)' >= Rung(t)
    BY <1>6
  <2> QED
    BY <1>7, <2>1
(* The done lines. *)
<1>8. ASSUME NEW t \in Slots, Reached(t, 1)'
      PROVE  Rung(t)' >= 3
  <2>1. CASE Reached(t, 1)
    <3>1. Rung(t) >= 3
      BY <1>1, <2>1 DEF ScanMeets
    <3> QED
      BY <1>7, <3>1
  <2>2. CASE ~Reached(t, 1)
    <3>1. t = s
      BY <1>3, <1>8, <2>2
    <3>2. done' # done
      BY <1>3, <1>8, <2>2 DEF Reached
    <3>3. FirstStamp(s) \/ SecondStamp(s)
      BY <3>2 DEF ScanSlot, ScanBegin, Begin, First, FirstOver, ScanThrow, ScanFlag, GatherAll,
         GatherCluster, FoldOver, PublishTotal, GatherTotals, CrossOver, Publish, SeePublished,
         StartCombine, CombineOver, Ready, SeeReady, Second, SecondOver, Release, Drain,
         Complete, Throw, Flag, Go, RunOrLeave
    <3>4. CASE FirstStamp(s)
      <4>1. Rung(s)' = IF Hierarchical \/ s = 0 THEN 3 ELSE 8
        BY <1>1, <3>4, ScanWay
      <4> QED
        BY <3>1, <4>1
    <3>5. CASE SecondStamp(s)
      <4>1. Rung(s)' \in {15, 17}
        BY <1>1, <3>5, ScanWay
      <4> QED
        BY <3>1, <4>1
    <3> QED
      BY <3>3, <3>4, <3>5
  <2> QED
    BY <2>1, <2>2
(* The prefixes. *)
<1>9. published' = published \/ (published' = TRUE /\ (Publish(s) \/ Release(s)))
  BY DEF ScanSlot, ScanBegin, First, FirstOver, FirstStamp, ScanThrow, ScanFlag, GatherAll,
     GatherCluster, FoldOver, PublishTotal, GatherTotals, CrossOver, Publish, SeePublished,
     StartCombine, CombineOver, Ready, SeeReady, Second, SecondOver, SecondStamp, Release, Drain,
     scanVars
<1>10. published' \in BOOLEAN /\ (published => published')
  BY <1>1, <1>9 DEF ScanMeets
<1>11. published' => Rung(0)' >= 9
  <2>1. CASE published' = published
    <3>1. published => Rung(0) >= 9
      BY <1>1 DEF ScanMeets
    <3> QED
      BY <1>2, <1>7, <2>1, <3>1
  <2>2. CASE Publish(s)
    <3>1. s = 0
      BY <1>1, <1>2, <2>2 DEF Publish, At, ScanPlaces
    <3>2. Rung(s)' = IF Hierarchical THEN 9 ELSE 12
      BY <1>1, <2>2, ScanWay
    <3> QED
      BY <3>1, <3>2
  <2>3. CASE Release(s)
    <3>1. s = 0
      BY <1>1, <1>2, <2>3 DEF Release, At, ScanPlaces
    <3>2. Rung(s)' = 16
      BY <1>1, <2>3, ScanWay
    <3> QED
      BY <3>1, <3>2
  <2> QED
    BY <1>9, <2>1, <2>2, <2>3
(* The stamps of the clusters. *)
<1>12. /\ cluster' = [k \in Slots |-> cluster'[k]]
       /\ \A k \in Slots : /\ cluster'[k] = Entries(cluster'[k].stamp, cluster'[k].total, cluster'[k].prefix)
                           /\ cluster'[k].stamp \in Nat
                           /\ \/ cluster'[k].stamp = cluster[k].stamp
                              \/ PublishTotal(s) /\ k = layout[s] /\ cluster'[k].stamp = 1
                              \/ Ready(s) /\ k = layout[s] /\ cluster'[k].stamp = 2
  <2>1. /\ cluster = [k \in Slots |-> cluster[k]]
        /\ \A k \in Slots : /\ cluster[k] = Entries(cluster[k].stamp, cluster[k].total, cluster[k].prefix)
                            /\ cluster[k].stamp \in Nat
    BY <1>1 DEF ScanMeets
  <2>2. layout[s] \in Slots
    BY <1>5
  <2>3. CASE cluster' = cluster
    BY <2>1, <2>3
  <2>4. CASE PublishTotal(s)
    <3>1. cluster' = [cluster EXCEPT ![layout[s]].stamp = 1]
      BY <2>4 DEF PublishTotal
    <3> QED
      BY <2>1, <2>2, <2>4, <3>1 DEF Entries
  <2>5. CASE Ready(s)
    <3>1. cluster' = [cluster EXCEPT ![layout[s]].stamp = 2]
      BY <2>5 DEF Ready
    <3> QED
      BY <2>1, <2>2, <2>5, <3>1 DEF Entries
  <2>6. ASSUME NEW v, cluster' = [cluster EXCEPT ![layout[s]].total = v]
        PROVE  /\ cluster' = [k \in Slots |-> cluster'[k]]
               /\ \A k \in Slots : /\ cluster'[k] = Entries(cluster'[k].stamp, cluster'[k].total, cluster'[k].prefix)
                                   /\ cluster'[k].stamp = cluster[k].stamp
    BY <2>1, <2>2, <2>6 DEF Entries
  <2>7. CASE FoldOver(s)
    <3>1. PICK v : cluster' = [cluster EXCEPT ![layout[s]].total = v]
      BY <2>7 DEF FoldOver
    <3> QED
      BY <2>1, <2>6, <3>1
  <2>8. CASE CrossOver(s)
    <3>1. cluster' = [k \in Slots |-> [cluster[k] EXCEPT !.prefix = InOrder(Totals, Below(Clusters, k))]]
      BY <2>8 DEF CrossOver
    <3>2. ASSUME NEW k \in Slots
          PROVE  /\ cluster'[k] = Entries(cluster'[k].stamp, cluster'[k].total, cluster'[k].prefix)
                 /\ cluster'[k].stamp = cluster[k].stamp
      <4> DEFINE v == InOrder(Totals, Below(Clusters, k))
      <4>1. cluster'[k] = [cluster[k] EXCEPT !.prefix = v]
        BY <3>1
      <4> HIDE DEF v
      <4> QED
        BY <2>1, <4>1 DEF Entries
    <3>3. cluster' = [k \in Slots |-> cluster'[k]]
      BY <3>1
    <3> QED
      BY <2>1, <3>2, <3>3
  <2> QED
    BY <2>3, <2>4, <2>5, <2>7, <2>8 DEF ScanSlot, ScanBegin, First, FirstOver, FirstStamp, ScanThrow,
       ScanFlag, GatherAll, GatherCluster, GatherTotals, Publish, SeePublished, StartCombine,
       CombineOver, SeeReady, Second, SecondOver, SecondStamp, Release, Drain, scanVars
<1>13. ASSUME Hierarchical, ~Thrown', NEW t \in Slots, NEW l \in Slots, l = Leader(t)
       PROVE  /\ cluster'[layout[t]].stamp >= 1 => Rung(l)' >= 6
              /\ cluster'[layout[t]].stamp >= 2 => Rung(l)' >= 12
  <2>1. layout[t] \in Slots
    BY <1>5
  <2>2. CASE cluster'[layout[t]].stamp = cluster[layout[t]].stamp
    <3>1. /\ cluster[layout[t]].stamp >= 1 => Rung(l) >= 6
          /\ cluster[layout[t]].stamp >= 2 => Rung(l) >= 12
      BY <1>1, <1>3, <1>13 DEF ScanMeets
    <3> QED
      BY <1>7, <2>2, <3>1
  <2>3. CASE PublishTotal(s) /\ layout[t] = layout[s] /\ cluster'[layout[t]].stamp = 1
    <3>1. IsLeader(s)
      BY <1>1, <1>2, <2>3 DEF PublishTotal, At, ScanPlaces
    <3>2. l = s
      BY <1>5, <1>13, <2>3, <3>1
    <3>3. Rung(s)' = IF s = 0 THEN 6 ELSE 8
      BY <1>1, <2>3, ScanWay
    <3> QED
      BY <2>3, <3>2, <3>3
  <2>4. CASE Ready(s) /\ layout[t] = layout[s] /\ cluster'[layout[t]].stamp = 2
    <3>1. IsLeader(s)
      BY <1>1, <1>2, <2>4 DEF Ready, At, ScanPlaces
    <3>2. l = s
      BY <1>5, <1>13, <2>4, <3>1
    <3>3. Rung(s)' = 12
      BY <1>1, <2>4, ScanWay
    <3> QED
      BY <2>4, <3>2, <3>3
  <2> QED
    BY <1>12, <2>1, <2>2, <2>3, <2>4
<1>14. ASSUME Hierarchical, ~Thrown', NEW t \in Slots, NEW l \in Slots, l = Leader(t), Rung(l)' >= 4
       PROVE  Rung(t)' >= 3
  <2>1. CASE Rung(l) >= 4
    <3>1. Rung(t) >= 3
      BY <1>1, <1>3, <1>14, <2>1 DEF ScanMeets
    <3> QED
      BY <1>7, <3>1
  <2>2. CASE Rung(l) < 4
    <3>1. l = s /\ IsLeader(s)
      BY <1>5, <1>6, <1>14, <2>2
    <3>2. Passes(Rung(s), Rung(s)', 4)
      BY <1>14, <2>2, <3>1 DEF Passes
    <3>3. GatherCluster(s)
      BY <1>14, <3>1, <3>2, ScanClimbs
    <3>4. Rung(s) >= 3
      <4>1. Rung(s) = 3
        BY <1>1, <3>3, ScanWay
      <4> QED
        BY <4>1
    <3>5. \A u \in Members(layout[s]) : Rung(u) >= 3
      <4>1. \A u \in Members(layout[s]) \ {s} : Reached(u, 1)
        BY <3>3 DEF GatherCluster
      <4> QED
        BY <1>1, <1>3, <1>14, <3>1, <3>4, <4>1, FoldReady
    <3>6. t \in Members(layout[s])
      BY <1>5, <1>14, <3>1 DEF Members, In
    <3>7. Rung(t) >= 3
      BY <3>5, <3>6
    <3> QED
      BY <1>7, <3>7
  <2>3. Rung(l) \in Nat
    BY <1>6
  <2> QED
    BY <2>1, <2>2, <2>3
<1>15. ASSUME Hierarchical, ~Thrown', NEW t \in Slots, NEW l \in Slots, l = Leader(t), Rung(0)' >= 7
       PROVE  Rung(l)' >= 6
  <2>1. CASE Rung(0) >= 7
    <3>1. Rung(l) >= 6
      BY <1>1, <1>3, <1>15, <2>1 DEF ScanMeets
    <3> QED
      BY <1>7, <3>1
  <2>2. CASE Rung(0) < 7
    <3>1. s = 0
      BY <1>2, <1>6, <1>15, <2>2
    <3>2. Passes(Rung(s), Rung(s)', 7)
      BY <1>15, <2>2, <3>1 DEF Passes
    <3>3. GatherTotals(s)
      BY <1>5, <1>15, <3>1, <3>2, ScanClimbs
    <3>4. Rung(0) >= 6
      <4>1. Rung(s) = 6
        BY <1>1, <3>3, ScanWay
      <4> QED
        BY <3>1, <4>1
    <3>5. \A k \in Clusters \ {0} : cluster[k].stamp >= 1
      BY <3>3 DEF GatherTotals
    <3>6. Rung(l) >= 6
      BY <1>1, <1>3, <1>15, <3>4, <3>5, CrossReady
    <3> QED
      BY <1>7, <3>6
  <2>3. Rung(0) \in Nat
    BY <1>2, <1>6
  <2> QED
    BY <2>1, <2>2, <2>3
<1>16. ASSUME Hierarchical, ~Thrown', NEW t \in Slots, IsLeader(t), Rung(t)' >= 9
       PROVE  published'
  <2>1. CASE Rung(t) >= 9
    <3>1. published
      BY <1>1, <1>3, <1>16, <2>1 DEF ScanMeets
    <3> QED
      BY <1>10, <3>1
  <2>2. CASE Rung(t) < 9
    <3>1. t = s
      BY <1>6, <1>16, <2>2
    <3>2. Passes(Rung(s), Rung(s)', 9)
      BY <1>16, <2>2, <3>1 DEF Passes
    <3>3. Publish(s) \/ SeePublished(s)
      BY <1>16, <3>1, <3>2, ScanClimbs
    <3> QED
      BY <1>10, <3>3 DEF Publish, SeePublished
  <2>3. Rung(t) \in Nat
    BY <1>6
  <2> QED
    BY <2>1, <2>2, <2>3
<1>17. ASSUME Hierarchical, ~Thrown', NEW t \in Slots, NEW l \in Slots, l = Leader(t)
       PROVE  /\ cluster'[layout[t]].stamp >= 1 => Rung(l)' >= 6
              /\ cluster'[layout[t]].stamp >= 2 => Rung(l)' >= 12
              /\ Rung(l)' >= 4 => Rung(t)' >= 3
              /\ Rung(0)' >= 7 => Rung(l)' >= 6
              /\ IsLeader(t) /\ Rung(t)' >= 9 => published'
  BY <1>13, <1>14, <1>15, <1>16, <1>17
<1>18. \A t \in Slots : Reached(t, 1)' => Rung(t)' >= 3
  BY <1>8
<1>19. \A k \in Slots : /\ cluster'[k] = Entries(cluster'[k].stamp, cluster'[k].total, cluster'[k].prefix)
                        /\ cluster'[k].stamp \in Nat
  BY <1>12
<1>20. cluster' = [k \in Slots |-> cluster'[k]]
  BY <1>12
<1>21. Hierarchical' /\ ~Thrown' =>
         \A t \in Slots : \A l \in {Leader(t)'} :
           /\ cluster'[layout'[t]].stamp >= 1 => Rung(l)' >= 6
           /\ cluster'[layout'[t]].stamp >= 2 => Rung(l)' >= 12
           /\ Rung(l)' >= 4 => Rung(t)' >= 3
           /\ Rung(0)' >= 7 => Rung(l)' >= 6
           /\ IsLeader(t)' /\ Rung(t)' >= 9 => published'
  BY <1>4, <1>5, <1>17
<1> QED
  BY <1>10, <1>11, <1>18, <1>19, <1>20, <1>21 DEF ScanMeets

(* As long as nobody gives up. *)
LEMMA ScanCourseKept ==
  ASSUME CommonInv, ScanInv, NEW s \in Slots, ScanSlot(s)
  PROVE  ScanCourse'
<1>1. /\ Kind = "scan" /\ ScanPlaces /\ ScanBegan /\ ScanMeets /\ ScanCourse /\ SlotStep(s)
      /\ call # NoCall
  BY ScanSteps DEF ScanSlot, ScanInv, SlotStep
<1>2. /\ 0 \in Slots /\ cancelled \in BOOLEAN /\ stopped \in BOOLEAN
      /\ \A t \in Slots : t \in job <=> pc[t] = "idle"
  BY <1>1, InScan
<1>3. layout' = layout /\ began \subseteq began' /\ (cancelled => cancelled')
  BY <1>1, OthersKeep
<1>4. /\ Hierarchical' = Hierarchical
      /\ \A t \in Slots : Leader(t)' = Leader(t)
  BY <1>3, LayoutStays
<1>5. \A t \in Slots : Leader(t) \in Slots /\ (IsLeader(t) <=> t = Leader(t))
  BY TheLeaders
<1>6. \A t \in Slots : /\ Rung(t) \in Nat /\ Rung(t)' \in Nat /\ Rung(t)' >= Rung(t)
                       /\ t # s => Rung(t)' = Rung(t)
  <2>1. \A t \in Slots : Rung(t) \in Nat
    BY <1>1, RungsAre
  <2>2. /\ \A t \in Slots \ {s} : Rung(t)' = Rung(t)
        /\ Rung(s) \in Nat /\ Rung(s)' \in Nat /\ Rung(s)' >= Rung(s)
    BY ScanClimbs
  <2> QED
    BY <2>1, <2>2
<1>7. ASSUME NEW t \in Slots, NEW n \in Nat, Rung(t) >= n
      PROVE  Rung(t)' >= n
  <2>1. Rung(t) \in Nat /\ Rung(t)' \in Nat /\ Rung(t)' >= Rung(t)
    BY <1>6
  <2> QED
    BY <1>7, <2>1
<1>8. SUFFICES ASSUME ~cancelled'
               PROVE  /\ ~Hierarchical => /\ Rung(0)' >= 4 => /\ <<Fold, 0>> \in began'
                                                              /\ \A t \in Slots : Rung(t)' >= 3
                                          /\ \A t \in Slots : Rung(t)' >= 9 => published'
                      /\ Hierarchical => \A t \in Slots : \A l \in {Leader(t)} : Rung(t)' >= 12 => Rung(l)' >= 12
                      /\ \A t \in Slots : Rung(t)' >= 14 => <<Pass2, t>> \in began'
  BY <1>4 DEF ScanCourse
<1>9. ~cancelled /\ ~Thrown /\ ~ScanFlag(s)
  BY <1>2, <1>3, <1>8 DEF ScanFlag, Flag, Thrown
<1>10. published => published'
  <2>1. published' = published \/ published' = TRUE
    BY DEF ScanSlot, ScanBegin, First, FirstOver, FirstStamp, ScanThrow, ScanFlag, GatherAll,
       GatherCluster, FoldOver, PublishTotal, GatherTotals, CrossOver, Publish, SeePublished,
       StartCombine, CombineOver, Ready, SeeReady, Second, SecondOver, SecondStamp, Release, Drain,
       scanVars
  <2> QED
    BY <2>1
(* The flat fold begins: what has thrown is about to give up, and all that *)
(* are behind their first pass wait for the prefixes.                      *)
<1>11. ASSUME ~Hierarchical, GatherAll(s)
       PROVE  exc = None
  <2>1. s = 0 /\ pc[s] = "gather"
    BY <1>1, <1>2, <1>11 DEF GatherAll, At, ScanPlaces
  <2>2. Rung(0) = 3
    BY <1>1, <1>11, <2>1, ScanWay
  <2>3. ~published
    <3>1. published => Rung(0) >= 9
      BY <1>1 DEF ScanMeets
    <3> QED
      BY <2>2, <3>1
  <2> SUFFICES ASSUME exc # None PROVE FALSE
    OBVIOUS
  <2>4. exc \in failed
    BY DEF CommonInv, ExcInv
  <2>5. PICK t \in Slots : pc[t] = "flag"
    BY <1>1, <1>9, <2>4 DEF CommonInv, ExcInv
  <2>6. t # 0 /\ Reached(t, 1)
    BY <1>11, <2>1, <2>5 DEF GatherAll, Others
  <2>7. Rung(t) >= 3
    BY <1>1, <2>6 DEF ScanMeets
  <2>8. item[t][1] \in 1 .. 5 /\ Rung(t) = 3 * item[t][1] - 2
    BY <1>1, <1>2, <2>5 DEF ScanPlaces, Rung
  <2>9. item[t][1] # 2 /\ item[t][1] # 3 /\ item[t][1] # 4
    BY <1>1, <1>2, <1>11, <2>5, <2>6 DEF ScanPlaces, InUnit, Fold, Cross, Combine
  <2>10. Rung(t) >= 9
    BY <2>7, <2>8, <2>9
  <2>11. published
    BY <1>1, <1>9, <1>11, <2>10 DEF ScanCourse
  <2> QED
    BY <2>3, <2>11
<1>12. ASSUME ~Hierarchical, Rung(0)' >= 4
       PROVE  <<Fold, 0>> \in began' /\ \A t \in Slots : Rung(t)' >= 3
  <2>1. CASE Rung(0) >= 4
    <3>1. <<Fold, 0>> \in began /\ \A t \in Slots : Rung(t) >= 3
      BY <1>1, <1>9, <1>12, <2>1 DEF ScanCourse
    <3> QED
      BY <1>3, <1>7, <3>1
  <2>2. CASE Rung(0) < 4
    <3>1. s = 0
      BY <1>2, <1>6, <1>12, <2>2
    <3>2. Passes(Rung(s), Rung(s)', 4)
      BY <1>12, <2>2, <3>1 DEF Passes
    <3>3. GatherAll(s)
      BY <1>9, <1>12, <3>1, <3>2, ScanClimbs
    <3>4. exc = None
      BY <1>11, <1>12, <3>3
    <3>5. Rung(0) >= 3
      <4>1. Rung(s) = 3
        BY <1>1, <3>3, ScanWay
      <4> QED
        BY <3>1, <4>1
    <3>6. \A t \in Others(0) : Reached(t, 1)
      BY <3>1, <3>3 DEF GatherAll
    <3>7. \A t \in Slots : Rung(t) >= 3
      BY <1>1, <1>12, <3>4, <3>5, <3>6, FlatReady
    <3>8. <<Fold, 0>> \in began'
      BY <3>1, <3>3, <3>4 DEF GatherAll, Run
    <3> QED
      BY <1>7, <3>7, <3>8
  <2>3. Rung(0) \in Nat
    BY <1>2, <1>6
  <2> QED
    BY <2>1, <2>2, <2>3
<1>13. ASSUME ~Hierarchical, NEW t \in Slots, Rung(t)' >= 9
       PROVE  published'
  <2>1. CASE Rung(t) >= 9
    <3>1. published
      BY <1>1, <1>9, <1>13, <2>1 DEF ScanCourse
    <3> QED
      BY <1>10, <3>1
  <2>2. CASE Rung(t) < 9
    <3>1. t = s
      BY <1>6, <1>13, <2>2
    <3>2. Passes(Rung(s), Rung(s)', 9)
      BY <1>13, <2>2, <3>1 DEF Passes
    <3>3. Publish(s) \/ SeePublished(s)
      BY <1>9, <1>13, <3>2, ScanClimbs
    <3> QED
      BY <1>10, <3>3 DEF Publish, SeePublished
  <2>3. Rung(t) \in Nat
    BY <1>6
  <2> QED
    BY <2>1, <2>2, <2>3
<1>14. ASSUME Hierarchical, NEW t \in Slots, NEW l \in {Leader(t)}, Rung(t)' >= 12
       PROVE  Rung(l)' >= 12
  <2>1. l \in Slots
    BY <1>5
  <2>2. CASE Rung(t) >= 12
    <3>1. Rung(l) >= 12
      BY <1>1, <1>9, <1>14, <2>2 DEF ScanCourse
    <3> QED
      BY <1>7, <2>1, <3>1
  <2>3. CASE Rung(t) < 12
    <3>1. t = s
      BY <1>6, <1>14, <2>3
    <3>2. Passes(Rung(s), Rung(s)', 12)
      BY <1>14, <2>3, <3>1 DEF Passes
    <3>3. CASE IsLeader(s)
      BY <1>5, <1>14, <3>1, <3>3
    <3>4. CASE SeeReady(s)
      <4>1. cluster[layout[s]].stamp >= 2
        BY <3>4 DEF SeeReady
      <4>2. Rung(l) >= 12
        BY <1>1, <1>9, <1>14, <3>1, <4>1 DEF ScanMeets
      <4> QED
        BY <1>7, <2>1, <4>2
    <3> QED
      BY <1>9, <1>14, <3>2, <3>3, <3>4, ScanClimbs
  <2>4. Rung(t) \in Nat
    BY <1>6
  <2> QED
    BY <2>2, <2>3, <2>4
<1>15. ASSUME NEW t \in Slots, Rung(t)' >= 14
       PROVE  <<Pass2, t>> \in began'
  <2>1. CASE Rung(t) >= 14
    <3>1. <<Pass2, t>> \in began
      BY <1>1, <1>9, <2>1 DEF ScanCourse
    <3> QED
      BY <1>3, <3>1
  <2>2. CASE Rung(t) < 14
    <3>1. t = s
      BY <1>6, <1>15, <2>2
    <3>2. Passes(Rung(s), Rung(s)', 14)
      BY <1>15, <2>2, <3>1 DEF Passes
    <3>3. ~(Second(s) /\ Cancelling)
      BY <1>2, <1>8 DEF Second, RunOrLeave, Cancelling
    <3>4. SecondOver(s)
      BY <1>9, <3>2, <3>3, ScanClimbs
    <3>5. pc[s] = "body" /\ item[s][1] = Pass2
      BY <3>4 DEF SecondOver, Complete, At, Stage
    <3>6. item[s] = <<Pass2, s>>
      BY <1>1, <1>2, <3>5 DEF ScanPlaces
    <3>7. item[s] \in began
      BY <3>5 DEF CommonInv, HistInv
    <3> QED
      BY <1>3, <3>1, <3>6, <3>7
  <2>3. Rung(t) \in Nat
    BY <1>6
  <2> QED
    BY <2>1, <2>2, <2>3
<1> QED
  BY <1>12, <1>13, <1>14, <1>15

LEMMA ScanKept ==
  ASSUME CommonInv, ScanInv, NEW s \in Slots, ScanSlot(s)
  PROVE  ScanInv'
<1>1. ScanPlaces' /\ ScanBegan' /\ ScanMeets' /\ ScanCourse'
  BY ScanPlacesKept, ScanBeganKept, ScanMeetsKept, ScanCourseKept
<1> QED
  BY <1>1 DEF ScanInv

LEMMA ScanOpens ==
  ASSUME CommonInv, OpenCall
  PROVE  ScanInv'
<1> SUFFICES ASSUME Kind' = "scan" PROVE ScanInv'
  BY DEF ScanInv
<1>1. /\ CommonInv' /\ began' = {} /\ job' = Slots
      /\ \A s \in Slots : pc'[s] = "idle"
      /\ \A s \in Slots : \A j \in Nat \ {0} : ~Reached(s, j)'
  BY OpenKeeps
<1>2. \A s \in Slots : Rung(s)' = 0
  BY <1>1 DEF Rung
<1>3. layout' = layout /\ 0 \in Slots
  BY StagedAssumption DEF OpenCall, Open, StagedAssumption
<1>4. layout \in [Slots -> Slots] /\ \A s \in Slots : Leader(s) \in Slots
  BY TheLeaders
<1>5. published' = FALSE /\ cluster' = [k \in Slots |-> NoCluster]
  BY DEF OpenCall, ScanOpen
<1>6. ScanPlaces'
  BY <1>1 DEF ScanPlaces
<1>7. ScanBegan'
  <2>1. \A s \in Slots : \A n \in {1, 4, 7, 10} : ~(Rung(s)' >= n)
    BY <1>2
  <2> QED
    BY <1>1, <1>3, <2>1 DEF ScanBegan
<1>8. ScanMeets'
  <2>1. \A s \in Slots : \A n \in {4, 7, 9} : ~(Rung(s)' >= n)
    BY <1>2
  <2>2. \A s \in Slots : ~Reached(s, 1)'
    BY <1>1
  <2>3. \A k \in Slots : cluster'[k] = [stamp |-> 0, total |-> Identity, prefix |-> Identity]
    BY <1>5 DEF NoCluster
  <2>4. /\ cluster' = [k \in Slots |-> cluster'[k]]
        /\ \A k \in Slots : /\ cluster'[k] = Entries(cluster'[k].stamp, cluster'[k].total, cluster'[k].prefix)
                            /\ cluster'[k].stamp = 0
    BY <1>5, <2>3 DEF Entries
  <2>5. \A s \in Slots : ~(cluster'[layout'[s]].stamp >= 1) /\ ~(cluster'[layout'[s]].stamp >= 2)
    BY <1>3, <1>4, <2>4
  <2>6. \A s \in Slots : \A l \in {Leader(s)'} : l \in Slots
    BY <1>3, <1>4, LayoutStays
  <2>7. \A s \in Slots : \A l \in {Leader(s)'} :
          /\ cluster'[layout'[s]].stamp >= 1 => Rung(l)' >= 6
          /\ cluster'[layout'[s]].stamp >= 2 => Rung(l)' >= 12
          /\ Rung(l)' >= 4 => Rung(s)' >= 3
          /\ Rung(0)' >= 7 => Rung(l)' >= 6
          /\ IsLeader(s)' /\ Rung(s)' >= 9 => published'
    BY <1>3, <2>1, <2>5, <2>6
  <2>8. \A k \in Slots : cluster'[k].stamp \in Nat
    BY <2>4
  <2>9. published' \in BOOLEAN /\ ~published'
    BY <1>5
  <2> QED
    BY <2>2, <2>4, <2>7, <2>8, <2>9 DEF ScanMeets
<1>9. ScanCourse'
  <2>1. \A s \in Slots : \A n \in {4, 9, 12, 14} : ~(Rung(s)' >= n)
    BY <1>2
  <2> QED
    BY <1>3, <2>1 DEF ScanCourse
<1> QED
  BY <1>6, <1>7, <1>8, <1>9 DEF ScanInv

(* When all slots are out and none has given up, nothing is left. *)
LEMMA ScanDone ==
  ASSUME CommonInv, ScanInv, Kind = "scan", Through, ~cancelled
  PROVE  UnitsOf(Current) \subseteq ended
<1>1. ScanPlaces /\ ScanBegan /\ ScanCourse
  BY DEF ScanInv
<1>2. UnitsOf(Current) = ScanUnits(layout) /\ 0 \in Slots
  BY InScan
<1>3. \A s \in Slots : Rung(s) = 17
  BY DEF Through, At, Rung
<1>4. \A s \in Slots : Leader(s) \in Slots /\ IsLeader(Leader(s))
  BY TheLeaders
<1>5. ASSUME NEW k \in 1 .. 5, NEW s \in Slots, <<k, s>> \in began
      PROVE  <<k, s>> \in ended
  <2>1. Rung(s) > 3 * k - 2
    BY <1>3
  <2> QED
    BY <1>1, <1>5, <2>1, BelowIsOver
<1>6. \A s \in Slots : \A n \in {1, 4, 7, 10, 14} : Rung(s) >= n
  BY <1>3
<1>7. /\ \A s \in Slots : <<Pass1, s>> \in began /\ <<Pass2, s>> \in began
      /\ ~Hierarchical => <<Fold, 0>> \in began
      /\ Hierarchical => /\ \A s \in Slots : IsLeader(s) => <<Fold, s>> \in began /\ <<Combine, s>> \in began
                         /\ <<Cross, 0>> \in began
  BY <1>1, <1>2, <1>6 DEF ScanBegan, ScanCourse, Thrown
<1>8. ASSUME NEW u \in ScanUnits(layout)
      PROVE  u \in began
  <2>1. u = <<u[1], u[2]>>
    BY ScanUnit
  <2>2. \/ u[1] \in {Pass1, Pass2} /\ u[2] \in Slots
        \/ Hierarchical /\ u[1] \in {Fold, Combine} /\ u[2] \in Slots /\ IsLeader(u[2])
        \/ Hierarchical /\ u[1] = Cross /\ u[2] = 0
        \/ ~Hierarchical /\ u[1] = Fold /\ u[2] = 0
    BY <1>4, ScanUnit
  <2>3. <<u[1], u[2]>> \in began
    BY <1>7, <2>2
  <2> QED
    BY <2>1, <2>3
<1>9. ASSUME NEW u \in ScanUnits(layout)
      PROVE  u \in ended
  <2>1. u = <<u[1], u[2]>> /\ u[1] \in 1 .. 5 /\ u[2] \in Slots
    BY <1>2, <1>4, ScanUnit DEF Pass1, Fold, Cross, Combine, Pass2
  <2> QED
    BY <1>5, <1>8, <2>1
<1> QED
  BY <1>2, <1>9

-----------------------------------------------------------------------------
(***************************************************************************)
(* inclusiveScan: a tile belongs to one cluster, is taken once by a slot   *)
(* of it, and carries its own total and then the tiles on its left.        *)
(***************************************************************************)
(* A finite set of naturals has a greatest element. *)
LEMMA HasGreatest ==
  ASSUME NEW S \in SUBSET Nat, S # {}, IsFiniteSet(S)
  PROVE  \E m \in S : \A t \in S : t <= m
<1>1. PICK n \in Nat : ExistsSurjection(1 .. n, S)
  BY FS_NatSurjection
<1>2. PICK f : f \in [1 .. n -> S] /\ \A t \in S : \E i \in 1 .. n : f[i] = t
  BY <1>1 DEF ExistsSurjection, Surjection
<1> DEFINE Top(i) == \E m \in S : \A j \in 1 .. i : f[j] <= m
           Bad == {i \in 1 .. n : ~Top(i)}
<1>3. Bad = {}
  <2> SUFFICES ASSUME Bad # {} PROVE FALSE
    OBVIOUS
  <2>1. PICK i \in Bad : \A k \in Bad : i <= k
    <3>1. Bad \in SUBSET Nat
      OBVIOUS
    <3> HIDE DEF Bad
    <3> QED
      BY <3>1, HasLeast
  <2>2. i \in 1 .. n /\ f[i] \in S /\ \A j \in 1 .. n : f[j] \in Nat
    BY <1>2, <2>1
  <2>3. CASE i = 1
    <3>1. \A j \in 1 .. i : f[j] <= f[i]
      BY <2>2, <2>3
    <3> QED
      BY <2>1, <2>2, <3>1
  <2>4. CASE i # 1
    <3>1. i - 1 \in 1 .. n /\ ~(i <= i - 1)
      BY <2>2, <2>4
    <3>2. Top(i - 1)
      BY <2>1, <3>1
    <3>3. PICK m \in S : \A j \in 1 .. i - 1 : f[j] <= m
      BY <3>2
    <3>4. \E g \in S : m <= g /\ f[i] <= g
      BY <2>2
    <3>5. PICK g \in S : m <= g /\ f[i] <= g
      BY <3>4
    <3>6. \A j \in 1 .. i : f[j] <= g
      <4> SUFFICES ASSUME NEW j \in 1 .. i PROVE f[j] <= g
        OBVIOUS
      <4>1. f[j] \in Nat /\ m \in Nat /\ g \in Nat
        BY <2>2
      <4>2. CASE j = i
        BY <3>5, <4>2
      <4>3. CASE j # i
        BY <2>2, <3>3, <3>5, <4>1, <4>3
      <4> QED
        BY <4>2, <4>3
    <3> QED
      BY <2>1, <3>6
  <2> QED
    BY <2>3, <2>4
<1>4. n \in 1 .. n
  <2>1. PICK t \in S : TRUE
    OBVIOUS
  <2>2. PICK i \in 1 .. n : f[i] = t
    BY <1>2
  <2> QED
    BY <2>2
<1>5. PICK m \in S : \A j \in 1 .. n : f[j] <= m
  BY <1>3, <1>4
<1> QED
  BY <1>2, <1>5

(* The shares of the clusters: rounded up, and none for a cluster without  *)
(* a slot.                                                                 *)
LEMMA QuotientIsNat ==
  ASSUME NEW a \in Nat, NEW b \in Nat \ {0}
  PROVE  a \div b \in Nat /\ (a < b => a \div b = 0)
OBVIOUS

LEMMA ShareIsNat ==
  ASSUME layout \in [Slots -> Slots], NEW n \in Nat, NEW k
  PROVE  Share(n, k) \in Nat /\ (Members(k) = {} => Share(n, k) = 0)
<1>1. IsFiniteSet(Slots) /\ 0 \in Slots /\ Members(k) \subseteq Slots
  BY StagedAssumption DEF StagedAssumption, Members, In
<1>2. Cardinality(Slots) \in Nat \ {0} /\ Cardinality(Members(k)) \in Nat
  BY <1>1, FS_CardinalityType, FS_EmptySet, FS_Subset
<1>3. n * Cardinality(Members(k)) \in Nat
  BY <1>2
<1>4. Members(k) = {} => n * Cardinality(Members(k)) = 0
  BY FS_EmptySet
<1> DEFINE a == n * Cardinality(Members(k))
           b == Cardinality(Slots)
<1>5. a + b - 1 \in Nat /\ (a = 0 => a + b - 1 < b)
  BY <1>2, <1>3
<1> QED
  BY <1>2, <1>4, <1>5, QuotientIsNat DEF Share, CeilDiv

LEMMA TheLastCluster ==
  ASSUME layout \in [Slots -> Slots], layout[0] = 0
  PROVE  /\ LastCluster \in Clusters /\ LastCluster \in Nat
         /\ 0 \in Clusters /\ Clusters \subseteq Slots /\ Clusters \subseteq Nat
         /\ \A k \in Clusters : k <= LastCluster
<1>1. Slots \subseteq Nat /\ 0 \in Slots /\ IsFiniteSet(Slots)
  BY StagedAssumption DEF StagedAssumption
<1>2. 0 \in Clusters /\ Clusters \subseteq Slots
  BY <1>1 DEF Clusters
<1>3. IsFiniteSet(Clusters)
  BY <1>1, <1>2, FS_Subset
<1>4. \E m \in Clusters : \A k \in Clusters : k <= m
  BY <1>1, <1>2, <1>3, HasGreatest
<1> QED
  BY <1>1, <1>2, <1>4 DEF LastCluster

(* The first tiles of the clusters, one behind the other. *)
IsTable(f, n, m) ==
  /\ f \in [0 .. m -> 0 .. n] /\ f[0] = 0
  /\ \A k \in 1 .. m : f[k] = Capped(n, f[k - 1] + Share(n, k - 1))

LEMMA TableExists ==
  ASSUME layout \in [Slots -> Slots], NEW n \in Nat, NEW m \in Nat
  PROVE  \E f : IsTable(f, n, m)
<1> DEFINE Bad == {i \in Nat : ~ \E f : IsTable(f, n, i)}
<1> SUFFICES ASSUME Bad # {} PROVE FALSE
  OBVIOUS
<1>1. PICK i \in Bad : \A k \in Bad : i <= k
  <2>1. Bad \in SUBSET Nat
    OBVIOUS
  <2> HIDE DEF Bad
  <2> QED
    BY <2>1, HasLeast
<1>2. CASE i = 0
  <2>1. IsTable([k \in 0 .. 0 |-> 0], n, 0)
    BY DEF IsTable
  <2> QED
    BY <1>1, <1>2, <2>1
<1>3. CASE i # 0
  <2>1. i - 1 \in Nat /\ ~(i <= i - 1)
    BY <1>1, <1>3
  <2>2. \E f : IsTable(f, n, i - 1)
    BY <1>1, <2>1
  <2>3. PICK f : IsTable(f, n, i - 1)
    BY <2>2
  <2> DEFINE x == Capped(n, f[i - 1] + Share(n, i - 1))
             g == [k \in 0 .. i |-> IF k = i THEN x ELSE f[k]]
  <2>4. /\ f \in [0 .. i - 1 -> 0 .. n] /\ f[0] = 0
        /\ \A k \in 1 .. i - 1 : f[k] = Capped(n, f[k - 1] + Share(n, k - 1))
    BY <2>3 DEF IsTable
  <2>5. x \in 0 .. n
    BY <2>1, <2>4, ShareIsNat DEF Capped
  <2>6. g \in [0 .. i -> 0 .. n] /\ g[0] = 0
    BY <1>3, <2>1, <2>4, <2>5
  <2>7. ASSUME NEW k \in 1 .. i
        PROVE  g[k] = Capped(n, g[k - 1] + Share(n, k - 1))
    <3>1. g[k - 1] = f[k - 1]
      BY <2>1
    <3>2. CASE k = i
      BY <3>1, <3>2
    <3>3. CASE k # i
      <4>1. k \in 1 .. i - 1
        BY <3>3, <2>1
      <4>2. g[k] = f[k]
        BY <3>3
      <4> QED
        BY <2>4, <3>1, <4>1, <4>2
    <3> QED
      BY <3>2, <3>3
  <2>8. IsTable(g, n, i)
    BY <2>6, <2>7 DEF IsTable
  <2> QED
    BY <1>1, <2>8
<1> QED
  BY <1>2, <1>3

LEMMA FirstTilesTable ==
  ASSUME layout \in [Slots -> Slots], layout[0] = 0, NEW n \in Nat
  PROVE  IsTable(FirstTiles(n), n, LastCluster)
<1>1. LastCluster \in Nat
  BY TheLastCluster
<1>2. \E f : IsTable(f, n, LastCluster)
  BY <1>1, TableExists
<1> QED
  BY <1>2 DEF IsTable, FirstTiles

LEMMA TableGrows ==
  ASSUME layout \in [Slots -> Slots], NEW n \in Nat, NEW m \in Nat, NEW f, IsTable(f, n, m)
  PROVE  /\ \A i \in 0 .. m - 1 : f[i] <= f[i + 1] /\ (Members(i) = {} => f[i] = f[i + 1])
         /\ \A i, j \in 0 .. m : i <= j => f[i] <= f[j]
<1>1. ASSUME NEW i \in 0 .. m - 1
      PROVE  f[i] <= f[i + 1] /\ (Members(i) = {} => f[i] = f[i + 1])
  <2>1. /\ i + 1 \in 1 .. m /\ (i + 1) - 1 = i /\ i \in 0 .. m
        /\ f[i] \in 0 .. n
    BY <1>1 DEF IsTable
  <2>2. f[i + 1] = Capped(n, f[i] + Share(n, i))
    BY <2>1 DEF IsTable
  <2>3. Share(n, i) \in Nat /\ (Members(i) = {} => Share(n, i) = 0)
    BY ShareIsNat
  <2> QED
    BY <2>1, <2>2, <2>3 DEF Capped
<1> DEFINE Bad == {j \in 0 .. m : \E i \in 0 .. j : ~(f[i] <= f[j])}
<1>2. Bad = {}
  <2> SUFFICES ASSUME Bad # {} PROVE FALSE
    OBVIOUS
  <2>1. PICK j \in Bad : \A k \in Bad : j <= k
    <3>1. Bad \in SUBSET Nat
      OBVIOUS
    <3> HIDE DEF Bad
    <3> QED
      BY <3>1, HasLeast
  <2>2. PICK i \in 0 .. j : ~(f[i] <= f[j])
    BY <2>1
  <2>3. j \in 0 .. m /\ \A k \in 0 .. m : f[k] \in Nat
    BY <2>1 DEF IsTable
  <2>4. i # j
    BY <2>2, <2>3
  <2>5. i \in 0 .. j - 1 /\ j - 1 \in 0 .. m - 1 /\ (j - 1) + 1 = j /\ ~(j <= j - 1)
    BY <2>2, <2>3, <2>4
  <2>6. f[i] <= f[j - 1]
    BY <2>1, <2>5
  <2>7. f[j - 1] <= f[j]
    BY <1>1, <2>5
  <2> QED
    BY <2>2, <2>3, <2>5, <2>6, <2>7
<1>3. \A i, j \in 0 .. m : i <= j => f[i] <= f[j]
  BY <1>2
<1> QED
  BY <1>1, <1>3

(* The tiles of the clusters lie side by side and are all there are. *)
LEMMA TileTable ==
  ASSUME layout \in [Slots -> Slots], layout[0] = 0, NEW n \in Nat
  PROVE  /\ \A k \in Clusters : /\ FirstTile(n, k) \in Nat /\ LastTile(n, k) \in 0 .. n
                                /\ FirstTile(n, k) <= LastTile(n, k)
         /\ \A k, l \in Clusters : k < l => LastTile(n, k) <= FirstTile(n, l)
         /\ \A t \in 0 .. n - 1 : \E k \in Clusters :
              FirstTile(n, k) <= t /\ t < LastTile(n, k)
<1> DEFINE f == FirstTiles(n)
           m == LastCluster
<1>1. /\ m \in Nat /\ m \in Clusters /\ 0 \in Clusters /\ Clusters \subseteq Nat
      /\ \A k \in Clusters : k \in 0 .. m
  BY TheLastCluster
<1>2. IsTable(f, n, m)
  BY FirstTilesTable
<1>3. /\ \A i \in 0 .. m - 1 : f[i] <= f[i + 1] /\ (Members(i) = {} => f[i] = f[i + 1])
      /\ \A i, j \in 0 .. m : i <= j => f[i] <= f[j]
  BY <1>1, <1>2, TableGrows
<1>4. \A k \in 0 .. m : f[k] \in 0 .. n
  BY <1>2 DEF IsTable
<1>5. ASSUME NEW k \in Clusters
      PROVE  /\ FirstTile(n, k) \in Nat /\ LastTile(n, k) \in 0 .. n
             /\ FirstTile(n, k) <= LastTile(n, k)
  <2>1. k \in 0 .. m
    BY <1>1
  <2>2. CASE k = m
    BY <1>4, <2>1, <2>2 DEF FirstTile, LastTile
  <2>3. CASE k # m
    <3>1. k \in 0 .. m - 1 /\ k + 1 \in 0 .. m
      BY <1>1, <2>1, <2>3
    <3>2. f[k] <= f[k + 1] /\ f[k] \in 0 .. n /\ f[k + 1] \in 0 .. n
      BY <1>3, <1>4, <2>1, <3>1
    <3> QED
      BY <2>3, <3>2 DEF FirstTile, LastTile
  <2> QED
    BY <2>2, <2>3
<1>6. ASSUME NEW k \in Clusters, NEW l \in Clusters, k < l
      PROVE  LastTile(n, k) <= FirstTile(n, l)
  <2>1. k # m /\ k + 1 \in 0 .. m /\ l \in 0 .. m /\ k + 1 <= l
    BY <1>1, <1>6
  <2>2. f[k + 1] <= f[l]
    BY <1>3, <2>1
  <2> QED
    BY <2>1, <2>2 DEF FirstTile, LastTile
<1>7. ASSUME NEW t \in 0 .. n - 1
      PROVE  \E k \in Clusters : FirstTile(n, k) <= t /\ t < LastTile(n, k)
  <2> DEFINE Fit == {k \in 0 .. m : k = m \/ t < f[k + 1]}
  <2>1. PICK k \in Fit : \A l \in Fit : k <= l
    <3>1. Fit \in SUBSET Nat /\ m \in Fit
      BY <1>1
    <3> HIDE DEF Fit
    <3> QED
      BY <3>1, HasLeast
  <2>2. k \in 0 .. m /\ f[0] = 0
    BY <1>2, <2>1 DEF IsTable
  <2>3. f[k] <= t
    <3>1. CASE k = 0
      BY <2>2, <3>1
    <3>2. CASE k # 0
      <4>1. k - 1 \in 0 .. m /\ (k - 1) + 1 = k /\ ~(k <= k - 1)
        BY <1>1, <2>2, <3>2
      <4>2. ~(t < f[k])
        BY <2>1, <4>1
      <4> QED
        BY <1>4, <2>2, <4>2
    <3> QED
      BY <3>1, <3>2
  <2>4. CASE k = m
    BY <1>1, <2>3, <2>4 DEF FirstTile, LastTile
  <2>5. CASE k # m
    <3>1. t < f[k + 1] /\ k \in 0 .. m - 1
      BY <1>1, <2>1, <2>2, <2>5
    <3>2. Members(k) # {}
      <4>1. Members(k) = {} => f[k] = f[k + 1]
        BY <1>3, <3>1
      <4>2. f[k] \in Nat /\ f[k] # f[k + 1]
        BY <1>4, <2>2, <2>3, <3>1
      <4> QED
        BY <4>1, <4>2
    <3>3. k \in Clusters
      BY <3>2 DEF Members, In, Clusters
    <3> QED
      BY <2>3, <2>5, <3>1, <3>3 DEF FirstTile, LastTile
  <2> QED
    BY <2>4, <2>5
<1> QED
  BY <1>5, <1>6, <1>7

(* A run of tiles as a value: the tiles from a up to b, without b. *)
Upto(a, b) == [i \in 1 .. b - a |-> a + i - 1]

LEMMA UptoIs ==
  ASSUME NEW b \in Nat, NEW a \in 0 .. b
  PROVE  /\ Upto(a, b) \in Seq(Nat) /\ Len(Upto(a, b)) = b - a
         /\ FirstNats(b) = Upto(0, b) /\ Upto(b, b) = Identity /\ <<b>> = Upto(b, b + 1)
<1>1. b - a \in Nat /\ Upto(a, b) \in [1 .. b - a -> Nat]
  BY DEF Upto
<1>2. Upto(a, b) \in Seq(Nat) /\ Len(Upto(a, b)) = b - a
  BY <1>1 DEF Upto
<1>3. FirstNats(b) = Upto(0, b)
  BY DEF FirstNats, Upto
<1>4. Upto(b, b) = Identity
  <2>1. 1 .. b - b = {}
    OBVIOUS
  <2>2. Upto(b, b) = [i \in {} |-> b + i - 1]
    BY <2>1 DEF Upto
  <2> QED
    BY <2>2 DEF Identity
<1>5. <<b>> = Upto(b, b + 1)
  <2>1. (b + 1) - b = 1 /\ b + 1 - 1 = b
    OBVIOUS
  <2>2. Upto(b, b + 1) \in Seq(Nat) /\ Len(Upto(b, b + 1)) = 1 /\ Upto(b, b + 1)[1] = b
    BY <2>1 DEF Upto
  <2> QED
    BY <2>2
<1> QED
  BY <1>2, <1>3, <1>4, <1>5

LEMMA UptoGlues ==
  ASSUME NEW c \in Nat, NEW b \in 0 .. c, NEW a \in 0 .. b
  PROVE  Upto(a, b) \o Upto(b, c) = Upto(a, c)
<1> DEFINE x == Upto(a, b)
           y == Upto(b, c)
           v == x \o y
<1>1. /\ x \in Seq(Nat) /\ Len(x) = b - a
      /\ y \in Seq(Nat) /\ Len(y) = c - b
      /\ Upto(a, c) \in Seq(Nat) /\ Len(Upto(a, c)) = c - a
  <2>1. b \in Nat /\ a \in 0 .. c
    OBVIOUS
  <2> QED
    BY <2>1, UptoIs
<1>2. /\ v \in Seq(Nat) /\ Len(v) = c - a
      /\ \A i \in 1 .. c - a : v[i] = IF i <= b - a THEN Upto(a, b)[i] ELSE Upto(b, c)[i - (b - a)]
  <2> HIDE DEF x, y
  <2>1. /\ x \o y \in Seq(Nat) /\ Len(x \o y) = Len(x) + Len(y)
        /\ \A i \in 1 .. Len(x) + Len(y) : (x \o y)[i] = IF i <= Len(x) THEN x[i] ELSE y[i - Len(x)]
    BY <1>1, ConcatProperties
  <2>2. Len(x) + Len(y) = c - a
    BY <1>1
  <2>3. \A i \in 1 .. c - a : (x \o y)[i] = IF i <= b - a THEN x[i] ELSE y[i - (b - a)]
    BY <1>1, <2>1, <2>2
  <2> QED
    BY <2>1, <2>2, <2>3 DEF x, y
<1>3. ASSUME NEW i \in 1 .. c - a
      PROVE  v[i] = Upto(a, c)[i]
  <2>1. Upto(a, c)[i] = a + i - 1
    BY DEF Upto
  <2>2. CASE i <= b - a
    BY <1>2, <2>1, <2>2 DEF Upto
  <2>3. CASE ~(i <= b - a)
    <3>1. i - (b - a) \in 1 .. c - b
      BY <2>3
    <3>2. Upto(b, c)[i - (b - a)] = b + (i - (b - a)) - 1
      BY <3>1 DEF Upto
    <3> QED
      BY <1>2, <2>1, <2>3, <3>2
  <2> QED
    BY <2>2, <2>3
<1> HIDE DEF v
<1>4. v = Upto(a, c)
  BY <1>1, <1>2, <1>3, SeqEqual
<1> QED
  BY <1>4 DEF v

-----------------------------------------------------------------------------
Holds(s) == pc[s] \in {"taken", "aggregate", "prefix", "identity", "body", "flag"}
InPart(s, j) == pc[s] = "body" /\ item[s][1] = j
OfCluster(k, t) == FirstTile(call.stages, k) <= t /\ t < LastTile(call.stages, k)
Taken(t) == \E k \in Clusters : OfCluster(k, t) /\ t < nextTile[k]
Tile(f, v, w) == [flag |-> f, aggregate |-> v, prefix |-> w]

(* The part of its tile that a slot is at, and the last one that is over. *)
Part(s) == CASE pc[s] \in {"body", "flag"} -> item[s][1]
             [] pc[s] = "aggregate" -> LocalScan
             [] pc[s] = "prefix" -> Walk
             [] OTHER -> 0
PartOver(s) == IF pc[s] \in {"body", "flag"} THEN item[s][1] - 1 ELSE Part(s)

(* Who holds which tile. *)
LookPlace(s) ==
  /\ pc[s] \in {"idle", "wait", "taken", "identity", "aggregate", "prefix", "body", "flag", "out"}
  /\ Holds(s) => OfCluster(layout[s], at[s]) /\ at[s] < nextTile[layout[s]]
  /\ pc[s] \in {"body", "flag"} => /\ item[s][1] \in LocalScan .. Correction
                                   /\ item[s] = <<item[s][1], at[s]>>
                                   /\ item[s][1] = Correction => at[s] # 0
  /\ pc[s] = "identity" => exc # None
  /\ pc[s] = "out" => LastTile(call.stages, layout[s]) <= nextTile[layout[s]]

LookPlaces ==
  /\ nextTile \in [Slots -> Nat]
  /\ \A k \in Clusters : FirstTile(call.stages, k) <= nextTile[k]
  /\ \A s \in Slots : LookPlace(s)
  /\ \A s, t \in Slots : Holds(s) /\ Holds(t) /\ at[s] = at[t] => s = t

LookBegan ==
  /\ \A u \in began : /\ u[1] \in LocalScan .. Correction /\ u = <<u[1], u[2]>>
                      /\ Taken(u[2])
  /\ \A s \in Slots : Holds(s) => \A j \in LocalScan .. Correction :
                        /\ <<j, at[s]>> \in began => j <= Part(s)
                        /\ j <= PartOver(s) => <<j, at[s]>> \in ended

(* A tile that somebody has taken is in hand or done with. *)
TileDone(t) == /\ tile[t].flag = 2
               /\ \A j \in LocalScan .. Correction : j # Correction \/ t # 0 => <<j, t>> \in ended

LookCourse ==
  exc = None => \A t \in 0 .. call.stages - 1 :
                  Taken(t) => TileDone(t) \/ \E s \in Slots : Holds(s) /\ at[s] = t

(* What a tile carries: its own total, and all tiles on its left. *)
LookValues ==
  /\ tile = [t \in 0 .. call.stages - 1 |-> Tile(tile[t].flag, tile[t].aggregate, tile[t].prefix)]
  /\ acc = [s \in Slots |-> acc[s]]
  /\ exc = None =>
       /\ \A t \in 0 .. call.stages - 1 :
            /\ tile[t].flag \in 0 .. 2
            /\ tile[t].flag >= 1 => tile[t].aggregate = <<t>>
            /\ tile[t].flag = 2 => tile[t].prefix = FirstNats(t)
       /\ \A s \in Slots :
            /\ pc[s] \in {"aggregate", "prefix"} \/ InPart(s, Walk) => tile[at[s]].aggregate = <<at[s]>>
            /\ InPart(s, Walk) => \E c \in 0 .. at[s] : acc[s] = Upto(c, at[s])
            /\ pc[s] = "prefix" \/ InPart(s, Correction) => acc[s] = FirstNats(at[s])
            /\ InPart(s, Correction) => tile[at[s]].flag = 2

LookInv == Kind = "lookback" => LookPlaces /\ LookBegan /\ LookCourse /\ LookValues

Slips(s) == /\ Kind = "lookback"
            /\ UNCHANGED stagedVars \/ (At(s, "flag") /\ Go(s, "wait"))

LEMMA InLook ==
  ASSUME CommonInv, Kind = "lookback"
  PROVE  /\ call # NoCall /\ call.kind = "lookback"
         /\ call.stages \in Nat \ {0} /\ Stages = call.stages
         /\ UnitsOf(Current) = LookbackUnits(call)
         /\ \A u : /\ NeedsOf(Current, u) = LookbackNeeds(call, u)
                   /\ AfterOf(Current, u) = {}
         /\ pc \in [Slots -> Resting \union {"idle", "body", "flag"}]
         /\ at \in [Slots -> 0 .. call.stages] /\ item \in [Slots -> Int \X Int]
         /\ 0 \in Slots /\ Slots \subseteq Nat
         /\ layout \in [Slots -> Slots] /\ layout[0] = 0
         /\ \A s \in Slots : layout[s] \in Clusters /\ layout[s] \in Slots
         /\ \A s \in Slots : s \in job <=> pc[s] = "idle"
         /\ \A s \in Slots : pc[s] = "flag" => exc # None
<1>1. call # NoCall /\ call.kind = "lookback" /\ IsCall(call)
  BY AtHand DEF Kind, CommonInv
<1>2. Current.of = call
  BY DEF Current, Plan
<1>3. Stages = call.stages /\ call.stages \in Nat \ {0}
  BY <1>1 DEF Stages, IsCall
<1>4. layout \in [Slots -> Slots] /\ layout[0] = 0
  BY AtHand DEF CommonInv
<1>5. \A s \in Slots : layout[s] \in Clusters /\ layout[s] \in Slots
  BY <1>4 DEF Clusters
<1>6. \A s \in Slots : pc[s] = "flag" => exc # None
  BY DEF CommonInv, ExcInv
<1>7. at \in [Slots -> 0 .. call.stages] /\ item \in [Slots -> Int \X Int]
  BY <1>3 DEF CommonInv, TypeInv
<1>8. 0 \in Slots /\ Slots \subseteq Nat
  BY StagedAssumption DEF StagedAssumption
<1>9. /\ UnitsOf(Current) = LookbackUnits(call)
      /\ \A u : /\ NeedsOf(Current, u) = LookbackNeeds(call, u)
                /\ AfterOf(Current, u) = {}
  BY <1>1, <1>2 DEF UnitsOf, NeedsOf, AfterOf
<1> QED
  BY <1>1, <1>3, <1>4, <1>5, <1>6, <1>7, <1>8, <1>9 DEF CommonInv, TypeInv, ShareInv

LEMMA LookUnit ==
  ASSUME NEW c, NEW j, NEW t
  PROVE  <<j, t>> \in LookbackUnits(c) <=>
           /\ j \in LocalScan .. Correction /\ t \in 0 .. c.stages - 1
           /\ j # Correction \/ t # 0
<1>1. \A i : i \in 1 .. 3 <=> i \in {1, 2, 3}
  OBVIOUS
<1> QED
  BY <1>1 DEF LookbackUnits, LocalScan, Walk, Correction

(* The clusters do not share a tile, and each is a slot's. *)
LEMMA TilesApart ==
  ASSUME CommonInv, Kind = "lookback", NEW k \in Clusters, NEW l \in Clusters, NEW t \in Nat,
         OfCluster(k, t), OfCluster(l, t)
  PROVE  k = l /\ t \in 0 .. call.stages - 1
<1>1. layout \in [Slots -> Slots] /\ layout[0] = 0 /\ call.stages \in Nat
  BY InLook
<1>2. k \in Nat /\ l \in Nat
  BY <1>1, TheLastCluster
<1>3. /\ \A i \in Clusters : FirstTile(call.stages, i) \in Nat /\ LastTile(call.stages, i) \in 0 .. call.stages
      /\ \A i, j \in Clusters : i < j => LastTile(call.stages, i) <= FirstTile(call.stages, j)
  BY <1>1, TileTable
<1>4. ~(k < l) /\ ~(l < k)
  BY <1>3 DEF OfCluster
<1> QED
  BY <1>1, <1>2, <1>3, <1>4 DEF OfCluster

(* What a step of a look-back scan is, and what it leaves alone. *)
LEMMA LookSteps ==
  ASSUME CommonInv, LookInv, NEW s \in Slots, LookbackSlot(s)
  PROVE  SlotStep(s) \/ Slips(s)
<1>1. Kind = "lookback" /\ LookPlaces /\ LookBegan
  BY DEF LookbackSlot, LookInv
<1>2. /\ call # NoCall /\ call.stages \in Nat \ {0} /\ Stages = call.stages
      /\ UnitsOf(Current) = LookbackUnits(call)
      /\ \A u : /\ NeedsOf(Current, u) = LookbackNeeds(call, u)
                /\ AfterOf(Current, u) = {}
      /\ pc \in [Slots -> Resting \union {"idle", "body", "flag"}]
      /\ at \in [Slots -> 0 .. call.stages] /\ item \in [Slots -> Int \X Int]
      /\ layout[s] \in Clusters /\ layout[s] \in Slots
      /\ layout \in [Slots -> Slots] /\ layout[0] = 0
  BY <1>1, InLook
<1>3. {"wait", "out", "taken", "identity", "aggregate", "prefix"} \subseteq Resting
  BY DEF Resting
<1>4. ASSUME Holds(s)
      PROVE  at[s] \in 0 .. call.stages - 1
  <2>1. OfCluster(layout[s], at[s]) /\ at[s] \in Nat
    BY <1>1, <1>2, <1>4 DEF LookPlaces, LookPlace
  <2> QED
    BY <1>1, <1>2, <2>1, TilesApart
<1>5. ASSUME Holds(s), NEW j \in LocalScan .. Correction, Part(s) < j, PartOver(s) = j - 1,
             j # Correction \/ at[s] # 0
      PROVE  /\ <<j, at[s]>> \in UnitsOf(Current) \ began
             /\ NeedsOf(Current, <<j, at[s]>>) \subseteq ended
             /\ AfterOf(Current, <<j, at[s]>>) \subseteq ended \union failed
  <2>1. <<j, at[s]>> \in LookbackUnits(call)
    BY <1>4, <1>5, LookUnit
  <2>2. j \in Int /\ Part(s) \in Int
    BY <1>1, <1>2, <1>5 DEF Part, LocalScan, Walk, Correction, LookPlaces, LookPlace
  <2>3. <<j, at[s]>> \notin began
    BY <1>1, <1>5, <2>2 DEF LookBegan
  <2>4. ASSUME NEW v \in LookbackUnits(call), v[1] < j, v[2] = at[s]
        PROVE  v \in ended
    <3>1. v = <<v[1], v[2]>> /\ v[1] \in LocalScan .. Correction
      BY <2>4 DEF LookbackUnits, LocalScan, Walk, Correction
    <3>2. v[1] <= PartOver(s)
      BY <1>5, <2>2, <2>4, <3>1 DEF LocalScan, Correction
    <3>3. <<v[1], at[s]>> \in ended
      BY <1>1, <1>5, <3>1, <3>2 DEF LookBegan
    <3> QED
      BY <2>4, <3>1, <3>3
  <2>5. LookbackNeeds(call, <<j, at[s]>>) \subseteq ended
    BY <2>4 DEF LookbackNeeds
  <2> QED
    BY <1>2, <2>1, <2>3, <2>5
<1>6. CASE LookbackBegin(s)
  BY <1>2, <1>6 DEF LookbackBegin, SlotStep, Begins
<1>7. CASE ClaimTile(s)
  <2> DEFINE t == nextTile[layout[s]]
             over == t >= LastTile(call.stages, layout[s])
  <2>1. /\ pc[s] = "wait" /\ Goto(s, IF over THEN "out" ELSE "taken")
        /\ at' = [at EXCEPT ![s] = IF over THEN 0 ELSE t]
        /\ UNCHANGED <<poolVars, item, done, cancelled, exc, stopped, history>>
    BY <1>7 DEF ClaimTile, At
  <2>2. t \in Nat /\ LastTile(call.stages, layout[s]) \in 0 .. call.stages
    BY <1>1, <1>2, TileTable DEF LookPlaces, LookPlace
  <2>3. at'[s] \in 0 .. Stages /\ at' = [at EXCEPT ![s] = at'[s]]
    BY <1>2, <2>1, <2>2
  <2>4. Moves(s)
    BY <1>3, <2>1, <2>3 DEF Moves
  <2> QED
    BY <1>2, <2>4 DEF SlotStep
<1>8. CASE StartTile(s)
  <2>1. pc[s] = "taken" /\ Holds(s) /\ Part(s) = 0 /\ PartOver(s) = 0
    BY <1>8 DEF StartTile, At, Holds, Part, PartOver
  <2>2. CASE exc # None
    <3>1. /\ Goto(s, "identity")
          /\ UNCHANGED <<poolVars, at, item, done, cancelled, exc, stopped, history>>
      BY <1>8, <2>2 DEF StartTile
    <3>2. at' = [at EXCEPT ![s] = at'[s]] /\ at'[s] \in 0 .. Stages
      BY <1>2, <3>1
    <3>3. Moves(s)
      BY <1>3, <2>1, <3>1, <3>2 DEF Moves
    <3> QED
      BY <1>2, <3>3 DEF SlotStep
  <2>3. CASE exc = None
    <3>1. /\ Run(s, <<LocalScan, at[s]>>)
          /\ UNCHANGED <<poolVars, at, done, cancelled, exc, stopped>>
      BY <1>8, <2>3 DEF StartTile
    <3>2. LocalScan \in LocalScan .. Correction /\ 0 < LocalScan /\ 0 = LocalScan - 1 /\ LocalScan # Correction
      BY DEF LocalScan, Correction
    <3>3. Starts(s, <<LocalScan, at[s]>>)
      BY <1>3, <1>5, <2>1, <3>1, <3>2 DEF Starts
    <3> QED
      BY <1>2, <3>3 DEF SlotStep
  <2> QED
    BY <2>2, <2>3
<1>9. CASE LocalOver(s)
  BY <1>2, <1>3, <1>9 DEF LocalOver, SlotStep, Ends
<1>10. CASE PublishAggregate(s)
  <2>1. pc[s] = "aggregate" /\ Holds(s) /\ Part(s) = LocalScan /\ PartOver(s) = LocalScan
    BY <1>10 DEF PublishAggregate, At, Holds, Part, PartOver
  <2>2. /\ Run(s, <<Walk, at[s]>>)
        /\ UNCHANGED <<poolVars, at, done, cancelled, exc, stopped>>
    BY <1>10 DEF PublishAggregate
  <2>3. /\ Walk \in LocalScan .. Correction /\ LocalScan < Walk /\ LocalScan = Walk - 1
        /\ Walk # Correction
    BY DEF LocalScan, Walk, Correction
  <2>4. Starts(s, <<Walk, at[s]>>)
    BY <1>3, <1>5, <2>1, <2>2, <2>3 DEF Starts
  <2> QED
    BY <1>2, <2>4 DEF SlotStep
<1>11. CASE WalkBack(s)
  BY <1>1, <1>11 DEF WalkBack, Slips
<1>12. CASE WalkOver(s)
  BY <1>2, <1>3, <1>12 DEF WalkOver, SlotStep, Ends
<1>13. CASE PublishPrefix(s)
  <2>1. pc[s] = "prefix" /\ Holds(s) /\ Part(s) = Walk /\ PartOver(s) = Walk
    BY <1>13 DEF PublishPrefix, At, Holds, Part, PartOver
  <2>2. UNCHANGED <<poolVars, at, done, cancelled, exc, stopped>>
    BY <1>13 DEF PublishPrefix
  <2>3. CASE at[s] = 0
    <3>1. Goto(s, "wait") /\ UNCHANGED <<item, history>>
      BY <1>13, <2>3 DEF PublishPrefix
    <3>2. at' = [at EXCEPT ![s] = at'[s]] /\ at'[s] \in 0 .. Stages
      BY <1>2, <2>2
    <3>3. Moves(s)
      BY <1>3, <2>1, <2>2, <3>1, <3>2 DEF Moves
    <3> QED
      BY <1>2, <3>3 DEF SlotStep
  <2>4. CASE at[s] # 0
    <3>1. Run(s, <<Correction, at[s]>>)
      BY <1>13, <2>4 DEF PublishPrefix
    <3>2. Correction \in LocalScan .. Correction /\ Walk < Correction /\ Walk = Correction - 1
      BY DEF LocalScan, Walk, Correction
    <3>3. Starts(s, <<Correction, at[s]>>)
      BY <1>3, <1>5, <2>1, <2>2, <2>4, <3>1, <3>2 DEF Starts
    <3> QED
      BY <1>2, <3>3 DEF SlotStep
  <2> QED
    BY <2>3, <2>4
<1>14. CASE CorrectionOver(s)
  BY <1>2, <1>3, <1>14 DEF CorrectionOver, SlotStep, Ends
<1>15. CASE TileThrow(s)
  BY <1>2, <1>15 DEF TileThrow, SlotStep
<1>16. CASE ReleaseTile(s)
  <2>1. CASE At(s, "flag")
    BY <1>1, <1>16, <2>1 DEF ReleaseTile, Slips
  <2>2. CASE At(s, "identity")
    <3>1. /\ pc[s] = "identity" /\ Goto(s, "wait")
          /\ UNCHANGED <<poolVars, at, item, done, cancelled, exc, stopped, history>>
      BY <1>16, <2>2 DEF ReleaseTile, At, Go
    <3>2. at' = [at EXCEPT ![s] = at'[s]] /\ at'[s] \in 0 .. Stages
      BY <1>2, <3>1
    <3>3. Moves(s)
      BY <1>3, <3>1, <3>2 DEF Moves
    <3> QED
      BY <1>2, <3>3 DEF SlotStep
  <2> QED
    BY <1>16, <2>1, <2>2 DEF ReleaseTile
<1> QED
  BY <1>6, <1>7, <1>8, <1>9, <1>10, <1>11, <1>12, <1>13, <1>14, <1>15, <1>16 DEF LookbackSlot

(* The slip is seen by nobody. *)
LEMMA SlipKeeps ==
  ASSUME CommonInv, NEW s \in Slots, Slips(s)
  PROVE  CommonInv' /\ UNCHANGED Region!vars
<1>1. /\ UNCHANGED <<layout, calls, call, job, epoch, epochBase, outcome>>
      /\ UNCHANGED <<at, item, done, cancelled, exc, stopped, began, ended, failed>>
      /\ Kind = "lookback"
  BY DEF Slips, Go, stagedVars, poolVars, history
<1>2. /\ pc \in [Slots -> Resting \union {"idle", "body", "flag"}]
      /\ "wait" \in Resting /\ "body" \notin Resting /\ "idle" \notin Resting /\ "flag" \notin Resting
  BY DEF CommonInv, TypeInv, Resting
<1>3. /\ pc' \in [Slots -> Resting \union {"idle", "body", "flag"}]
      /\ \A t \in Slots : /\ pc'[t] = "idle" <=> pc[t] = "idle"
                          /\ pc'[t] = "body" <=> pc[t] = "body"
                          /\ pc'[t] = "flag" => pc[t] = "flag"
  <2>1. CASE pc' = pc
    BY <1>2, <2>1
  <2>2. CASE pc[s] = "flag" /\ pc' = [pc EXCEPT ![s] = "wait"]
    BY <1>2, <2>2
  <2> QED
    BY <2>1, <2>2 DEF Slips, stagedVars, At, Go, Goto
<1>4. TypeInv' /\ PlanInv' /\ EpochInv'
  BY <1>1, <1>3 DEF CommonInv, TypeInv, PlanInv, EpochInv, Stages, Line, Kind
<1>5. RestInv' /\ ShareInv'
  BY <1>1, <1>3 DEF CommonInv, RestInv, ShareInv
<1>6. HistInv'
  BY <1>1, <1>3 DEF CommonInv, HistInv, Runs, Current
<1>7. ExcInv'
  BY <1>1, <1>3 DEF CommonInv, ExcInv, Kind
<1>8. UNCHANGED Region!vars
  BY <1>1 DEF Region!vars
<1> QED
  BY <1>4, <1>5, <1>6, <1>7, <1>8 DEF CommonInv

LEMMA LookFrame ==
  ASSUME CommonInv, NEW s \in Slots, LookbackSlot(s)
  PROVE  /\ UNCHANGED <<layout, call, done, stopped>> /\ Kind' = Kind
         /\ \A t \in Slots \ {s} : pc'[t] = pc[t] /\ at'[t] = at[t] /\ item'[t] = item[t]
         /\ began \subseteq began' /\ ended \subseteq ended'
         /\ exc' = None => exc = None
         /\ ~ClaimTile(s) => nextTile' = nextTile
         /\ ~LookbackBegin(s) /\ ~ClaimTile(s) => at' = at
<1>1. /\ pc \in [Slots -> Resting \union {"idle", "body", "flag"}]
      /\ at \in [Slots -> 0 .. call.stages] /\ item \in [Slots -> Int \X Int]
  BY InLook DEF LookbackSlot
<1> DEFINE Frame == /\ UNCHANGED <<layout, call, done, stopped>>
                    /\ \A t \in Slots \ {s} : pc'[t] = pc[t] /\ at'[t] = at[t] /\ item'[t] = item[t]
                    /\ began \subseteq began' /\ ended \subseteq ended'
                    /\ exc' = None => exc = None
                    /\ ~ClaimTile(s) => nextTile' = nextTile
                    /\ ~LookbackBegin(s) /\ ~ClaimTile(s) => at' = at
<1> SUFFICES Frame
  BY DEF Kind
<1>2. CASE LookbackBegin(s)
  BY <1>1, <1>2 DEF LookbackBegin, lookbackVars, Begin, Goto, history
<1>3. CASE ClaimTile(s)
  BY <1>1, <1>3 DEF ClaimTile, Goto, poolVars, history
<1>4. CASE StartTile(s)
  BY <1>1, <1>4 DEF StartTile, Run, Goto, poolVars, history, lookbackVars
<1>5. CASE LocalOver(s) \/ WalkOver(s) \/ CorrectionOver(s)
  BY <1>1, <1>5 DEF LocalOver, WalkOver, CorrectionOver, Complete, Goto, poolVars, lookbackVars
<1>6. CASE PublishAggregate(s)
  BY <1>1, <1>6 DEF PublishAggregate, Run, Goto, poolVars
<1>7. CASE WalkBack(s)
  BY <1>1, <1>7 DEF WalkBack, stagedVars, poolVars, history
<1>8. CASE PublishPrefix(s)
  BY <1>1, <1>8 DEF PublishPrefix, Run, Goto, poolVars, history
<1>9. CASE TileThrow(s)
  BY <1>1, <1>9 DEF TileThrow, Throw, Goto, poolVars, lookbackVars
<1>10. CASE ReleaseTile(s)
  BY <1>1, <1>10 DEF ReleaseTile, Go, Goto, poolVars, history
<1> QED
  BY <1>2, <1>3, <1>4, <1>5, <1>6, <1>7, <1>8, <1>9, <1>10 DEF LookbackSlot

(* The tiles of the clusters are the same as long as the call is. *)
LEMMA TilesStay ==
  ASSUME layout' = layout, call' = call
  PROVE  /\ Clusters' = Clusters
         /\ \A k : /\ FirstTile(call.stages, k)' = FirstTile(call.stages, k)
                   /\ LastTile(call.stages, k)' = LastTile(call.stages, k)
                   /\ \A t : OfCluster(k, t)' <=> OfCluster(k, t)
<1>1. Clusters' = Clusters
  BY DEF Clusters
<1>2. LastCluster' = LastCluster
  BY <1>1 DEF LastCluster
<1>3. \A n, k : Share(n, k)' = Share(n, k)
  BY DEF Share, Members
<1>4. FirstTiles(call.stages)' = FirstTiles(call.stages)
  BY <1>2, <1>3 DEF FirstTiles
<1>5. \A k : /\ FirstTile(call.stages, k)' = FirstTile(call.stages, k)
             /\ LastTile(call.stages, k)' = LastTile(call.stages, k)
  BY <1>2, <1>4 DEF FirstTile, LastTile
<1> QED
  BY <1>1, <1>5 DEF OfCluster

(* The claim: the next tile of the slot's cluster, if there is one. *)
LEMMA Claims ==
  ASSUME CommonInv, LookInv, NEW s \in Slots, LookbackSlot(s), ClaimTile(s)
  PROVE  LET k == layout[s]
             t == nextTile[k]
         IN  /\ pc[s] = "wait" /\ ~Holds(s)
             /\ nextTile' = [nextTile EXCEPT ![k] = @ + 1]
             /\ \/ /\ ~OfCluster(k, t) /\ LastTile(call.stages, k) <= t /\ pc'[s] = "out"
                \/ /\ OfCluster(k, t) /\ pc'[s] = "taken" /\ at'[s] = t
                   /\ t \in 0 .. call.stages - 1 /\ ~Taken(t)
                   /\ \A r \in Slots : Holds(r) => at[r] # t
             /\ UNCHANGED <<item, exc, began, ended, tile, acc>>
<1> DEFINE k == layout[s]
           t == nextTile[k]
<1>1. Kind = "lookback" /\ LookPlaces
  BY DEF LookbackSlot, LookInv
<1>2. /\ pc \in [Slots -> Resting \union {"idle", "body", "flag"}]
      /\ at \in [Slots -> 0 .. call.stages] /\ call.stages \in Nat
      /\ layout \in [Slots -> Slots] /\ layout[0] = 0
      /\ \A r \in Slots : layout[r] \in Clusters /\ layout[r] \in Slots
  BY <1>1, InLook
<1>3. /\ t \in Nat /\ FirstTile(call.stages, k) <= t
      /\ LastTile(call.stages, k) \in 0 .. call.stages
  BY <1>1, <1>2, TileTable DEF LookPlaces
<1>4. /\ pc[s] = "wait" /\ ~Holds(s)
      /\ nextTile' = [nextTile EXCEPT ![k] = @ + 1]
      /\ UNCHANGED <<item, exc, began, ended, tile, acc>>
  BY DEF ClaimTile, At, Holds, history
<1>5. CASE t >= LastTile(call.stages, k)
  <2>1. pc'[s] = "out"
    BY <1>2, <1>5 DEF ClaimTile, Goto
  <2>2. ~OfCluster(k, t) /\ LastTile(call.stages, k) <= t
    BY <1>3, <1>5 DEF OfCluster
  <2> QED
    BY <1>4, <2>1, <2>2
<1>6. CASE ~(t >= LastTile(call.stages, k))
  <2>1. pc'[s] = "taken" /\ at'[s] = t
    BY <1>2, <1>6 DEF ClaimTile, Goto
  <2>2. OfCluster(k, t) /\ t \in 0 .. call.stages - 1
    BY <1>2, <1>3, <1>6 DEF OfCluster
  <2>3. \A l \in Clusters : OfCluster(l, t) => l = k
    BY <1>1, <1>2, <1>3, <2>2, TilesApart
  <2>4. ~Taken(t)
    BY <1>3, <2>3 DEF Taken
  <2>5. ASSUME NEW r \in Slots, Holds(r), at[r] = t
        PROVE  FALSE
    <3>1. OfCluster(layout[r], t) /\ t < nextTile[layout[r]]
      BY <1>1, <2>5 DEF LookPlaces, LookPlace
    <3>2. layout[r] = k
      BY <1>2, <2>3, <3>1
    <3> QED
      BY <1>3, <3>1, <3>2
  <2> QED
    BY <1>4, <2>1, <2>2, <2>4, <2>5
<1> QED
  BY <1>5, <1>6

(* Only a claim takes a tile. *)
LEMMA HoldsStay ==
  ASSUME CommonInv, LookInv, NEW s \in Slots, LookbackSlot(s)
  PROVE  /\ ~ClaimTile(s) /\ Holds(s)' => Holds(s) /\ at' = at
         /\ nextTile' \in [Slots -> Nat] /\ \A k \in Slots : nextTile[k] <= nextTile'[k]
         /\ \A t \in Nat : Taken(t) => Taken(t)'
         /\ \A t \in Slots \ {s} : Holds(t)' <=> Holds(t)
<1>1. Kind = "lookback" /\ LookPlaces
  BY DEF LookbackSlot, LookInv
<1>2. /\ pc \in [Slots -> Resting \union {"idle", "body", "flag"}]
      /\ layout[s] \in Slots /\ Clusters \subseteq Slots
      /\ \A t \in Slots : t \in job <=> pc[t] = "idle"
  BY <1>1, InLook, TheLastCluster
<1>3. /\ layout' = layout /\ call' = call
      /\ \A t \in Slots \ {s} : pc'[t] = pc[t]
      /\ ~ClaimTile(s) => nextTile' = nextTile
      /\ ~LookbackBegin(s) /\ ~ClaimTile(s) => at' = at
  BY LookFrame
<1>4. nextTile' \in [Slots -> Nat] /\ \A k \in Slots : nextTile[k] <= nextTile'[k]
  <2>1. CASE ClaimTile(s)
    BY <1>1, <1>2, <2>1 DEF ClaimTile, LookPlaces
  <2>2. CASE ~ClaimTile(s)
    BY <1>1, <1>3, <2>2 DEF LookPlaces
  <2> QED
    BY <2>1, <2>2
<1>5. ASSUME NEW t \in Nat, Taken(t)
      PROVE  Taken(t)'
  <2>1. PICK k \in Clusters : OfCluster(k, t) /\ t < nextTile[k]
    BY <1>5 DEF Taken
  <2>2. OfCluster(k, t)' /\ k \in Clusters'
    BY <1>3, <2>1, TilesStay
  <2>3. t < nextTile'[k]
    BY <1>1, <1>2, <1>4, <2>1 DEF LookPlaces, OfCluster
  <2> QED
    BY <2>2, <2>3 DEF Taken
<1>6. ASSUME ~ClaimTile(s), Holds(s)'
      PROVE  Holds(s) /\ at' = at
  <2>1. ~LookbackBegin(s)
    BY <1>2, <1>6 DEF LookbackBegin, Begin, Goto, Holds
  <2>2. Holds(s)
    BY <1>2, <1>6, <2>1 DEF LookbackSlot, StartTile, LocalOver, PublishAggregate, WalkBack,
       WalkOver, PublishPrefix, CorrectionOver, TileThrow, ReleaseTile, Complete, Throw, At, Holds
  <2> QED
    BY <1>3, <1>6, <2>1, <2>2
<1>7. \A t \in Slots \ {s} : Holds(t)' <=> Holds(t)
  BY <1>3 DEF Holds
<1> QED
  BY <1>4, <1>5, <1>6, <1>7

(* Where a slot goes from its place, and what it leaves in its tile. *)
Moved(s, x, y) == pc[s] = x /\ pc'[s] = y
Began(u) == began' = began \union {u} /\ UNCHANGED <<exc, ended>>
Ended(u) == ended' = ended \union {u} /\ UNCHANGED <<exc, began>>
Marks(t, f, v, w) == tile' = [tile EXCEPT ![t] = Tile(f, v, w)]

LEMMA Released ==
  ASSUME NEW t \in DOMAIN tile, NEW v,
         tile = [r \in DOMAIN tile |-> tile[r]],
         tile[t] = Tile(tile[t].flag, tile[t].aggregate, tile[t].prefix)
  PROVE  [tile EXCEPT ![t].prefix = v, ![t].flag = 2] = [tile EXCEPT ![t] = Tile(2, tile[t].aggregate, v)]
<1> DEFINE x == [tile EXCEPT ![t].prefix = v]
           y == [x EXCEPT ![t].flag = 2]
<1>1. [tile[t] EXCEPT !.prefix = v] = Tile(tile[t].flag, tile[t].aggregate, v)
  BY DEF Tile
<1>2. x = [tile EXCEPT ![t] = Tile(tile[t].flag, tile[t].aggregate, v)]
  BY <1>1
<1>3. x[t] = Tile(tile[t].flag, tile[t].aggregate, v)
  BY <1>2
<1>4. [x[t] EXCEPT !.flag = 2] = Tile(2, tile[t].aggregate, v)
  <2> HIDE DEF x
  <2> QED
    BY <1>3 DEF Tile
<1>5. y = [x EXCEPT ![t] = Tile(2, tile[t].aggregate, v)]
  BY <1>4
<1>6. y = [tile EXCEPT ![t] = Tile(2, tile[t].aggregate, v)]
  BY <1>2, <1>5
<1> QED
  BY <1>6

LEMMA LookWay ==
  ASSUME CommonInv, LookInv, NEW s \in Slots, LookbackSlot(s)
  PROVE  LET t == at[s]
         IN  /\ LookbackBegin(s) => Moved(s, "idle", "wait") /\ UNCHANGED <<exc, history, tile, acc>>
             /\ StartTile(s) =>
                  /\ UNCHANGED <<tile, acc>>
                  /\ \/ exc # None /\ Moved(s, "taken", "identity") /\ UNCHANGED <<exc, history>>
                     \/ Moved(s, "taken", "body") /\ item'[s] = <<LocalScan, t>> /\ Began(<<LocalScan, t>>)
             /\ LocalOver(s) =>
                  /\ InPart(s, LocalScan) /\ Moved(s, "body", "aggregate") /\ Ended(item[s])
                  /\ Marks(t, tile[t].flag, <<t>>, tile[t].prefix) /\ UNCHANGED acc
             /\ PublishAggregate(s) =>
                  /\ Moved(s, "aggregate", "body") /\ item'[s] = <<Walk, t>> /\ Began(<<Walk, t>>)
                  /\ Marks(t, 1, tile[t].aggregate, tile[t].prefix) /\ acc' = [acc EXCEPT ![s] = Identity]
             /\ WalkBack(s) =>
                  /\ InPart(s, Walk) /\ InPart(s, Walk)' /\ UNCHANGED <<pc, item, exc, history, tile>>
                  /\ Cursor(s) > 0 /\ tile[Cursor(s) - 1].flag = 1
                  /\ acc' = [acc EXCEPT ![s] = tile[Cursor(s) - 1].aggregate \o acc[s]]
             /\ WalkOver(s) =>
                  /\ InPart(s, Walk) /\ Moved(s, "body", "prefix") /\ Ended(item[s]) /\ UNCHANGED tile
                  /\ \/ Cursor(s) = 0 /\ UNCHANGED acc
                     \/ /\ Cursor(s) > 0 /\ tile[Cursor(s) - 1].flag = 2
                        /\ acc' = [acc EXCEPT ![s] = (tile[Cursor(s) - 1].prefix
                                                      \o tile[Cursor(s) - 1].aggregate) \o acc[s]]
             /\ PublishPrefix(s) =>
                  /\ Marks(t, 2, tile[t].aggregate, acc[s]) /\ UNCHANGED acc
                  /\ \/ t = 0 /\ Moved(s, "prefix", "wait") /\ UNCHANGED <<exc, history>>
                     \/ /\ t # 0 /\ Moved(s, "prefix", "body") /\ item'[s] = <<Correction, t>>
                        /\ Began(<<Correction, t>>)
             /\ CorrectionOver(s) =>
                  /\ InPart(s, Correction) /\ Moved(s, "body", "wait") /\ Ended(item[s])
                  /\ UNCHANGED <<tile, acc>>
             /\ TileThrow(s) => /\ Moved(s, "body", "flag") /\ exc' # None
                                /\ UNCHANGED <<item, began, ended, tile, acc>>
             /\ ReleaseTile(s) => /\ exc # None /\ pc'[s] = "wait"
                                  /\ UNCHANGED <<exc, history, acc>>
                                  /\ Marks(t, 2, tile[t].aggregate, Identity)
<1> DEFINE t == at[s]
           Tiles == 0 .. call.stages - 1
<1>1. Kind = "lookback" /\ LookPlaces /\ LookValues
  BY DEF LookbackSlot, LookInv
<1>2. /\ pc \in [Slots -> Resting \union {"idle", "body", "flag"}]
      /\ at \in [Slots -> 0 .. call.stages] /\ item \in [Slots -> Int \X Int]
      /\ layout[s] \in Clusters
      /\ \A r \in Slots : r \in job <=> pc[r] = "idle"
      /\ pc[s] = "flag" => exc # None
      /\ call # NoCall
  BY <1>1, InLook
<1>3. Holds(s) => t \in Tiles
  <2> SUFFICES ASSUME Holds(s) PROVE t \in Tiles
    OBVIOUS
  <2>1. OfCluster(layout[s], t) /\ t \in Nat
    BY <1>1, <1>2, SMTT(30) DEF LookPlaces, LookPlace
  <2> QED
    BY <1>1, <1>2, <2>1, TilesApart
<1>4. /\ tile = [r \in Tiles |-> Tile(tile[r].flag, tile[r].aggregate, tile[r].prefix)]
      /\ acc = [r \in Slots |-> acc[r]]
  BY <1>1 DEF LookValues
<1>5. t \in Tiles => tile[t] = Tile(tile[t].flag, tile[t].aggregate, tile[t].prefix)
  BY <1>4
<1>16. DOMAIN tile = Tiles /\ tile = [r \in DOMAIN tile |-> tile[r]]
  <2>1. DOMAIN tile = Tiles
    BY <1>4
  <2>2. \A r \in Tiles : tile[r] = Tile(tile[r].flag, tile[r].aggregate, tile[r].prefix)
    BY <1>4
  <2> QED
    BY <1>4, <2>1, <2>2
<1>6. LookbackBegin(s) => Moved(s, "idle", "wait") /\ UNCHANGED <<exc, history, tile, acc>>
  BY <1>2 DEF LookbackBegin, Begin, Goto, Moved, lookbackVars, history
<1>7. ASSUME StartTile(s)
      PROVE  /\ UNCHANGED <<tile, acc>>
             /\ \/ exc # None /\ Moved(s, "taken", "identity") /\ UNCHANGED <<exc, history>>
                \/ Moved(s, "taken", "body") /\ item'[s] = <<LocalScan, t>> /\ Began(<<LocalScan, t>>)
  <2>1. CASE exc # None
    BY <1>2, <1>7, <2>1 DEF StartTile, At, Goto, Moved, lookbackVars
  <2>2. CASE exc = None
    BY <1>2, <1>7, <2>2 DEF StartTile, At, Run, Goto, Moved, Began, lookbackVars
  <2> QED
    BY <2>1, <2>2
<1>8. ASSUME LocalOver(s)
      PROVE  /\ InPart(s, LocalScan) /\ Moved(s, "body", "aggregate") /\ Ended(item[s])
             /\ Marks(t, tile[t].flag, <<t>>, tile[t].prefix) /\ UNCHANGED acc
  <2>1. pc[s] = "body" /\ tile' = [tile EXCEPT ![t].aggregate = <<t>>]
    BY <1>8 DEF LocalOver, Complete, At
  <2>2. tile' = [tile EXCEPT ![t] = [@ EXCEPT !.aggregate = <<t>>]]
    BY <2>1
  <2>3. [tile[t] EXCEPT !.aggregate = <<t>>] = Tile(tile[t].flag, <<t>>, tile[t].prefix)
    BY <1>3, <1>5, <2>1 DEF Tile, Holds
  <2>4. Marks(t, tile[t].flag, <<t>>, tile[t].prefix)
    BY <2>2, <2>3 DEF Marks
  <2> QED
    BY <1>2, <1>8, <2>4 DEF LocalOver, Complete, At, Goto, Moved, Ended, InPart, Stage
<1>9. ASSUME PublishAggregate(s)
      PROVE  /\ Moved(s, "aggregate", "body") /\ item'[s] = <<Walk, t>> /\ Began(<<Walk, t>>)
             /\ Marks(t, 1, tile[t].aggregate, tile[t].prefix) /\ acc' = [acc EXCEPT ![s] = Identity]
  <2>1. pc[s] = "aggregate" /\ tile' = [tile EXCEPT ![t].flag = 1]
    BY <1>9 DEF PublishAggregate, At
  <2>2. [tile[t] EXCEPT !.flag = 1] = Tile(1, tile[t].aggregate, tile[t].prefix)
    BY <1>3, <1>5, <2>1 DEF Tile, Holds
  <2>3. Marks(t, 1, tile[t].aggregate, tile[t].prefix)
    BY <2>1, <2>2 DEF Marks
  <2> QED
    BY <1>2, <1>9, <2>3 DEF PublishAggregate, At, Run, Goto, Moved, Began
<1>10. ASSUME WalkBack(s)
       PROVE  /\ InPart(s, Walk) /\ InPart(s, Walk)' /\ UNCHANGED <<pc, item, exc, history, tile>>
              /\ Cursor(s) > 0 /\ tile[Cursor(s) - 1].flag = 1
              /\ acc' = [acc EXCEPT ![s] = tile[Cursor(s) - 1].aggregate \o acc[s]]
  BY <1>10 DEF WalkBack, At, Stage, InPart, Stitched, stagedVars
<1>11. ASSUME WalkOver(s)
       PROVE  /\ InPart(s, Walk) /\ Moved(s, "body", "prefix") /\ Ended(item[s]) /\ UNCHANGED tile
              /\ \/ Cursor(s) = 0 /\ UNCHANGED acc
                 \/ /\ Cursor(s) > 0 /\ tile[Cursor(s) - 1].flag = 2
                    /\ acc' = [acc EXCEPT ![s] = (tile[Cursor(s) - 1].prefix
                                                  \o tile[Cursor(s) - 1].aggregate) \o acc[s]]
  BY <1>2, <1>11 DEF WalkOver, Complete, At, Goto, Stage, InPart, Moved, Ended, Stitched
<1>12. ASSUME PublishPrefix(s)
       PROVE  /\ Marks(t, 2, tile[t].aggregate, acc[s]) /\ UNCHANGED acc
              /\ \/ t = 0 /\ Moved(s, "prefix", "wait") /\ UNCHANGED <<exc, history>>
                 \/ /\ t # 0 /\ Moved(s, "prefix", "body") /\ item'[s] = <<Correction, t>>
                    /\ Began(<<Correction, t>>)
  <2>1. pc[s] = "prefix" /\ tile' = [tile EXCEPT ![t].prefix = acc[s], ![t].flag = 2]
    BY <1>12 DEF PublishPrefix, At
  <2>2. tile' = [tile EXCEPT ![t] = Tile(2, tile[t].aggregate, acc[s])]
    <3>1. t \in Tiles
      BY <1>3, <2>1 DEF Holds
    <3> QED
      BY <1>5, <1>16, <2>1, <3>1, Released
  <2>3. CASE t = 0
    BY <1>2, <1>12, <2>2, <2>3 DEF PublishPrefix, At, Goto, Moved, Marks
  <2>4. CASE t # 0
    BY <1>2, <1>12, <2>2, <2>4 DEF PublishPrefix, At, Run, Goto, Moved, Began, Marks
  <2> QED
    BY <2>3, <2>4
<1>13. ASSUME CorrectionOver(s)
       PROVE  /\ InPart(s, Correction) /\ Moved(s, "body", "wait") /\ Ended(item[s])
              /\ UNCHANGED <<tile, acc>>
  BY <1>2, <1>13 DEF CorrectionOver, Complete, At, Goto, Stage, InPart, Moved, Ended, lookbackVars
<1>14. ASSUME TileThrow(s)
       PROVE  /\ Moved(s, "body", "flag") /\ exc' # None
              /\ UNCHANGED <<item, began, ended, tile, acc>>
  <2>1. pc[s] = "body" /\ item[s] # None
    BY <1>2, <1>14, UnitsShape DEF TileThrow, Throw, At, CommonInv, HistInv
  <2> QED
    BY <1>2, <1>14, <2>1 DEF TileThrow, Throw, Goto, Moved, lookbackVars
<1>15. ASSUME ReleaseTile(s)
       PROVE  /\ exc # None /\ pc'[s] = "wait"
              /\ UNCHANGED <<exc, history, acc>>
              /\ Marks(t, 2, tile[t].aggregate, Identity)
  <2>1. pc[s] \in {"identity", "flag"} /\ tile' = [tile EXCEPT ![t].prefix = Identity, ![t].flag = 2]
    BY <1>15 DEF ReleaseTile, At
  <2>2. tile' = [tile EXCEPT ![t] = Tile(2, tile[t].aggregate, Identity)]
    <3>1. t \in Tiles
      BY <1>3, <2>1 DEF Holds
    <3> QED
      BY <1>5, <1>16, <2>1, <3>1, Released
  <2>3. exc # None
    BY <1>1, <1>2, <2>1 DEF LookPlaces, LookPlace
  <2> QED
    BY <1>2, <1>15, <2>2, <2>3 DEF ReleaseTile, Go, Goto, Marks
<1> QED
  BY <1>6, <1>7, <1>8, <1>9, <1>10, <1>11, <1>12, <1>13, <1>14, <1>15

LEMMA LookPlacesKept ==
  ASSUME CommonInv, LookInv, NEW s \in Slots, LookbackSlot(s)
  PROVE  LookPlaces'
<1> DEFINE k == layout[s]
           t == nextTile[k]
<1>1. Kind = "lookback" /\ LookPlaces
  BY DEF LookbackSlot, LookInv
<1>2. /\ pc \in [Slots -> Resting \union {"idle", "body", "flag"}]
      /\ at \in [Slots -> 0 .. call.stages] /\ call.stages \in Nat
      /\ layout \in [Slots -> Slots] /\ layout[0] = 0
      /\ \A r \in Slots : layout[r] \in Clusters /\ layout[r] \in Slots
  BY <1>1, InLook
<1>3. /\ layout' = layout /\ call' = call
      /\ \A r \in Slots \ {s} : pc'[r] = pc[r] /\ at'[r] = at[r] /\ item'[r] = item[r]
      /\ exc' = None => exc = None
      /\ ~ClaimTile(s) => nextTile' = nextTile
  BY LookFrame
<1>4. /\ Clusters' = Clusters /\ Clusters \subseteq Slots
      /\ \A l : /\ FirstTile(call.stages, l)' = FirstTile(call.stages, l)
                /\ LastTile(call.stages, l)' = LastTile(call.stages, l)
                /\ \A r : OfCluster(l, r)' <=> OfCluster(l, r)
      /\ \A l \in Clusters : FirstTile(call.stages, l) \in Nat /\ LastTile(call.stages, l) \in Nat
  <2>1. \A l \in Clusters : FirstTile(call.stages, l) \in Nat /\ LastTile(call.stages, l) \in 0 .. call.stages
    BY <1>2, TileTable
  <2>2. Clusters \subseteq Slots
    BY <1>2, TheLastCluster
  <2>3. \A l \in Clusters : LastTile(call.stages, l) \in Nat
    BY <1>2, <2>1
  <2> QED
    BY <1>3, <2>1, <2>2, <2>3, TilesStay
<1>5. /\ ~ClaimTile(s) /\ Holds(s)' => Holds(s) /\ at' = at
      /\ nextTile \in [Slots -> Nat] /\ nextTile' \in [Slots -> Nat]
      /\ \A l \in Slots : nextTile[l] <= nextTile'[l]
      /\ \A r \in Slots \ {s} : Holds(r)' <=> Holds(r)
  BY <1>1, HoldsStay DEF LookPlaces
<1>6. \A l \in Clusters' : FirstTile(call.stages, l)' <= nextTile'[l]
  <2> SUFFICES ASSUME NEW l \in Clusters PROVE FirstTile(call.stages, l) <= nextTile'[l]
    BY <1>4
  <2>1. FirstTile(call.stages, l) <= nextTile[l] /\ nextTile[l] <= nextTile'[l] /\ l \in Slots
    BY <1>1, <1>4, <1>5 DEF LookPlaces
  <2> QED
    BY <1>4, <1>5, <2>1
<1>7. ASSUME NEW r \in Slots \ {s}
      PROVE  LookPlace(r)'
  <2>1. LookPlace(r) /\ layout[r] \in Slots /\ layout[r] \in Clusters
    BY <1>1, <1>2 DEF LookPlaces
  <2>2. at[r] \in Nat /\ nextTile[layout[r]] \in Nat /\ nextTile'[layout[r]] \in Nat
        /\ nextTile[layout[r]] <= nextTile'[layout[r]] /\ LastTile(call.stages, layout[r]) \in Nat
    BY <1>2, <1>4, <1>5, <2>1
  <2>3. /\ pc'[r] = pc[r] /\ at'[r] = at[r] /\ item'[r] = item[r] /\ layout'[r] = layout[r]
        /\ exc' = None => exc = None
        /\ Holds(r)' <=> Holds(r)
    BY <1>3, <1>5
  <2>4. Holds(r)' => OfCluster(layout[r], at[r])' /\ at'[r] < nextTile'[layout'[r]]
    <3>1. Holds(r)' => OfCluster(layout[r], at[r]) /\ at[r] < nextTile[layout[r]]
      BY <2>1, <2>3 DEF LookPlace
    <3>2. OfCluster(layout[r], at[r])' <=> OfCluster(layout[r], at[r])
      BY <1>4, <2>3 DEF OfCluster
    <3> QED
      BY <2>2, <2>3, <3>1, <3>2
  <2>5. pc'[r] = "out" => LastTile(call.stages, layout[r])' <= nextTile'[layout'[r]]
    <3>1. LastTile(call.stages, layout[r])' = LastTile(call.stages, layout[r])
      BY <1>3, <1>4, <2>3
    <3> QED
      BY <2>1, <2>2, <2>3, <3>1 DEF LookPlace
  <2> QED
    BY <2>1, <2>3, <2>4, <2>5 DEF LookPlace
<1>8. LookPlace(s)'
  <2>1. LookPlace(s)
    BY <1>1 DEF LookPlaces
  <2>2. CASE ClaimTile(s)
    <3>1. /\ nextTile' = [nextTile EXCEPT ![k] = @ + 1]
          /\ \/ LastTile(call.stages, k) <= t /\ pc'[s] = "out"
             \/ OfCluster(k, t) /\ pc'[s] = "taken" /\ at'[s] = t
      BY <2>2, Claims
    <3>2. nextTile'[k] = t + 1 /\ t \in Nat /\ layout'[s] = k
      BY <1>2, <1>3, <1>5, <3>1
    <3>3. CASE LastTile(call.stages, k) <= t /\ pc'[s] = "out"
      <4>1. LastTile(call.stages, layout[s])' <= nextTile'[layout'[s]]
        BY <1>2, <1>3, <1>4, <3>2, <3>3
      <4> QED
        BY <3>3, <4>1 DEF LookPlace, Holds
    <3>4. CASE OfCluster(k, t) /\ pc'[s] = "taken" /\ at'[s] = t
      <4>1. OfCluster(layout[s], at[s])'
        <5>1. OfCluster(layout[s], at[s])' <=> OfCluster(k, t)
          BY <1>4, <3>2, <3>4 DEF OfCluster
        <5> QED
          BY <3>4, <5>1
      <4>2. at'[s] < nextTile'[layout'[s]]
        BY <3>2, <3>4
      <4> QED
        BY <3>4, <4>1, <4>2 DEF LookPlace, Holds
    <3> QED
      BY <3>1, <3>3, <3>4
  <2>3. CASE ~ClaimTile(s)
    <3>1. Holds(s)' => OfCluster(layout[s], at[s])' /\ at'[s] < nextTile'[layout'[s]]
      <4> SUFFICES ASSUME Holds(s)'
                   PROVE  OfCluster(layout[s], at[s])' /\ at'[s] < nextTile'[layout'[s]]
        OBVIOUS
      <4>1. Holds(s) /\ at' = at /\ nextTile' = nextTile
        BY <1>3, <1>5, <2>3
      <4>2. OfCluster(layout[s], at[s]) /\ at[s] < nextTile[layout[s]]
        BY <2>1, <4>1 DEF LookPlace
      <4>3. OfCluster(layout[s], at[s])' <=> OfCluster(layout[s], at[s])
        BY <1>3, <1>4, <4>1 DEF OfCluster
      <4> QED
        BY <1>3, <4>1, <4>2, <4>3
    <3> DEFINE InBody == /\ item'[s][1] \in LocalScan .. Correction
                         /\ item'[s] = <<item'[s][1], at'[s]>>
                         /\ item'[s][1] = Correction => at'[s] # 0
    <3>2. ~LookbackBegin(s) => at' = at
      BY <2>3, LookFrame
    <3> DEFINE Fits == /\ pc'[s] \in {"idle", "wait", "taken", "identity", "aggregate", "prefix", "body", "flag"}
                       /\ pc'[s] \in {"body", "flag"} => InBody
                       /\ pc'[s] = "identity" => exc' # None
    <3>3. Fits
      <4>1. CASE LookbackBegin(s)
        BY <4>1, LookWay DEF Moved
      <4>2. CASE StartTile(s)
        <5>1. \/ exc # None /\ pc'[s] = "identity"
              \/ pc'[s] = "body" /\ item'[s] = <<LocalScan, at[s]>>
          BY <4>2, LookWay DEF Moved
        <5>2. at' = at /\ (exc' = None => exc = None)
          BY <1>3, <3>2, <4>2, LookWay DEF StartTile
        <5> QED
          BY <5>1, <5>2 DEF LocalScan, Correction
      <4>3. CASE LocalOver(s)
        BY <4>3, LookWay DEF Moved
      <4>4. CASE PublishAggregate(s)
        <5>1. pc'[s] = "body" /\ item'[s] = <<Walk, at[s]>> /\ at' = at
          BY <4>4, LookWay DEF Moved, PublishAggregate
        <5> QED
          BY <5>1 DEF LocalScan, Walk, Correction
      <4>5. CASE WalkBack(s)
        <5>1. UNCHANGED <<pc, item, at>> /\ pc[s] = "body"
          BY <4>5 DEF WalkBack, stagedVars, At
        <5> QED
          BY <2>1, <5>1 DEF LookPlace
      <4>6. CASE WalkOver(s) \/ CorrectionOver(s)
        BY <4>6, LookWay DEF Moved
      <4>7. CASE PublishPrefix(s)
        <5>1. \/ pc'[s] = "wait"
              \/ pc'[s] = "body" /\ item'[s] = <<Correction, at[s]>> /\ at[s] # 0
          BY <4>7, LookWay DEF Moved
        <5>2. at' = at
          BY <4>7 DEF PublishPrefix
        <5> QED
          BY <5>1, <5>2 DEF LocalScan, Correction
      <4>8. CASE TileThrow(s)
        <5>1. pc[s] = "body" /\ pc'[s] = "flag" /\ item' = item /\ at' = at
          BY <4>8, LookWay DEF Moved, TileThrow, Throw
        <5> QED
          BY <2>1, <5>1 DEF LookPlace
      <4>9. CASE ReleaseTile(s)
        BY <4>9, LookWay
      <4> QED
        BY <2>3, <4>1, <4>2, <4>3, <4>4, <4>5, <4>6, <4>7, <4>8, <4>9 DEF LookbackSlot
    <3> QED
      BY <3>1, <3>3 DEF LookPlace
  <2> QED
    BY <2>2, <2>3
<1>9. ASSUME NEW r \in Slots \ {s}, Holds(r)', Holds(s)', at'[r] = at'[s]
      PROVE  FALSE
  <2>1. Holds(r) /\ at'[r] = at[r]
    BY <1>3, <1>5, <1>9
  <2>2. CASE ClaimTile(s)
    <3>1. at'[s] = t /\ at[r] # t
      BY <1>9, <2>1, <2>2, Claims DEF Holds
    <3> QED
      BY <1>9, <2>1, <3>1
  <2>3. CASE ~ClaimTile(s)
    BY <1>1, <1>5, <1>9, <2>1, <2>3 DEF LookPlaces
  <2> QED
    BY <2>2, <2>3
<1>10. ASSUME NEW r \in Slots, NEW q \in Slots, Holds(r)', Holds(q)', at'[r] = at'[q]
       PROVE  r = q
  <2>1. CASE r = s \/ q = s
    BY <1>9, <1>10, <2>1
  <2>2. CASE r # s /\ q # s
    <3>1. Holds(r) /\ Holds(q) /\ at[r] = at[q]
      BY <1>3, <1>5, <1>10, <2>2
    <3> QED
      BY <1>1, <3>1 DEF LookPlaces
  <2> QED
    BY <2>1, <2>2
<1> QED
  BY <1>5, <1>6, <1>7, <1>8, <1>10 DEF LookPlaces

(* A unit belongs to a tile that is taken, and follows those before it. *)
LEMMA LookBeganKept ==
  ASSUME CommonInv, LookInv, NEW s \in Slots, LookbackSlot(s)
  PROVE  LookBegan'
<1> DEFINE t == at[s]
<1>1. Kind = "lookback" /\ LookPlaces /\ LookBegan
  BY DEF LookbackSlot, LookInv
<1>2. /\ pc \in [Slots -> Resting \union {"idle", "body", "flag"}]
      /\ at \in [Slots -> 0 .. call.stages] /\ item \in [Slots -> Int \X Int]
      /\ call.stages \in Nat /\ call # NoCall
      /\ UnitsOf(Current) = LookbackUnits(call)
      /\ layout[s] \in Clusters
  BY <1>1, InLook
<1>3. /\ \A r \in Slots \ {s} : pc'[r] = pc[r] /\ at'[r] = at[r] /\ item'[r] = item[r]
      /\ began \subseteq began' /\ ended \subseteq ended'
  BY LookFrame
<1>4. /\ ~ClaimTile(s) /\ Holds(s)' => Holds(s) /\ at' = at
      /\ \A n \in Nat : Taken(n) => Taken(n)'
      /\ \A r \in Slots \ {s} : Holds(r)' <=> Holds(r)
  BY HoldsStay
<1>5. Holds(s) => Taken(t)
  BY <1>1, <1>2 DEF LookPlaces, LookPlace, Taken
<1> DEFINE Old == began' = began /\ ended' = ended
           New == /\ Holds(s)
                  /\ \E j \in LocalScan .. Correction :
                       /\ began' = began \union {<<j, t>>} /\ ended' = ended
                       /\ Part(s) < j /\ PartOver(s) = j - 1
                       /\ pc'[s] = "body" /\ item'[s] = <<j, t>>
           Finishes == /\ Holds(s)
                       /\ \E j \in LocalScan .. Correction :
                            /\ pc[s] = "body" /\ item[s] = <<j, t>>
                            /\ began' = began /\ ended' = ended \union {<<j, t>>}
                            /\ Holds(s)' => Part(s)' = j /\ PartOver(s)' = j
<1>6. (Part(s) = 0 /\ PartOver(s) = 0) \/ pc[s] \in {"body", "flag", "aggregate", "prefix"}
  BY DEF Part, PartOver
<1>7. /\ pc[s] = "aggregate" => Part(s) = 1 /\ PartOver(s) = 1
      /\ pc[s] = "prefix" => Part(s) = 2 /\ PartOver(s) = 2
      /\ pc'[s] = "aggregate" => Part(s)' = 1 /\ PartOver(s)' = 1
      /\ pc'[s] = "prefix" => Part(s)' = 2 /\ PartOver(s)' = 2
  BY DEF Part, PartOver, LocalScan, Walk
<1>8. pc[s] = "body" => item[s] = <<item[s][1], t>> /\ item[s][1] \in LocalScan .. Correction
  BY <1>1 DEF LookPlaces, LookPlace
<1>9. \/ ClaimTile(s)
      \/ Old /\ ~Holds(s)'
      \/ Old /\ Part(s)' = Part(s) /\ PartOver(s)' = PartOver(s)
      \/ New
      \/ Finishes
  <2>1. CASE LookbackBegin(s)
    BY <2>1, LookWay DEF Moved, Holds, history
  <2>2. CASE StartTile(s)
    <3>1. CASE exc # None /\ Moved(s, "taken", "identity") /\ UNCHANGED <<exc, history>>
      BY <3>1 DEF Moved, Part, PartOver, history
    <3>2. CASE Moved(s, "taken", "body") /\ item'[s] = <<LocalScan, t>> /\ Began(<<LocalScan, t>>)
      BY <1>6, <3>2 DEF Moved, Began, Holds, LocalScan, Correction
    <3> QED
      BY <2>2, <3>1, <3>2, LookWay
  <2>3. CASE LocalOver(s)
    <3>1. InPart(s, LocalScan) /\ Moved(s, "body", "aggregate") /\ Ended(item[s])
      BY <2>3, LookWay
    <3> QED
      BY <1>7, <1>8, <3>1 DEF InPart, Moved, Ended, Holds, LocalScan
  <2>4. CASE PublishAggregate(s)
    <3>1. Moved(s, "aggregate", "body") /\ item'[s] = <<Walk, t>> /\ Began(<<Walk, t>>)
      BY <2>4, LookWay
    <3> QED
      BY <1>7, <3>1 DEF Moved, Began, Holds, LocalScan, Walk, Correction
  <2>5. CASE WalkBack(s)
    <3>1. UNCHANGED <<pc, item, history>>
      BY <2>5, LookWay
    <3> QED
      BY <3>1 DEF Part, PartOver, history
  <2>6. CASE WalkOver(s)
    <3>1. InPart(s, Walk) /\ Moved(s, "body", "prefix") /\ Ended(item[s])
      BY <2>6, LookWay
    <3> QED
      BY <1>7, <1>8, <3>1 DEF InPart, Moved, Ended, Holds, Walk
  <2>7. CASE PublishPrefix(s)
    <3>1. CASE Moved(s, "prefix", "wait") /\ UNCHANGED <<exc, history>>
      BY <3>1 DEF Moved, Holds, history
    <3>2. CASE Moved(s, "prefix", "body") /\ item'[s] = <<Correction, t>> /\ Began(<<Correction, t>>)
      BY <1>7, <3>2 DEF Moved, Began, Holds, LocalScan, Correction
    <3> QED
      BY <2>7, <3>1, <3>2, LookWay
  <2>8. CASE CorrectionOver(s)
    <3>1. InPart(s, Correction) /\ Moved(s, "body", "wait") /\ Ended(item[s])
      BY <2>8, LookWay
    <3> QED
      BY <1>8, <3>1 DEF InPart, Moved, Ended, Holds
  <2>9. CASE TileThrow(s)
    <3>1. Moved(s, "body", "flag") /\ UNCHANGED <<item, began, ended>>
      BY <2>9, LookWay
    <3> QED
      BY <3>1 DEF Moved, Part, PartOver
  <2>10. CASE ReleaseTile(s)
    <3>1. pc'[s] = "wait" /\ UNCHANGED history
      BY <2>10, LookWay
    <3> QED
      BY <3>1 DEF Holds, history
  <2> QED
    BY <2>1, <2>2, <2>3, <2>4, <2>5, <2>6, <2>7, <2>8, <2>9, <2>10 DEF LookbackSlot
<1>10. ClaimTile(s) => Old
  BY Claims
<1>11. ASSUME NEW u \in began'
       PROVE  u[1] \in LocalScan .. Correction /\ u = <<u[1], u[2]>> /\ Taken(u[2])'
  <2>1. CASE u \in began
    <3>1. u \in LookbackUnits(call)
      BY <1>2, <2>1 DEF CommonInv, HistInv
    <3>2. u[2] \in Nat
      BY <1>2, <3>1 DEF LookbackUnits
    <3> QED
      BY <1>1, <1>4, <2>1, <3>2 DEF LookBegan
  <2>2. CASE u \notin began
    <3>1. New
      BY <1>9, <1>10, <1>11, <2>2
    <3>2. u[1] \in LocalScan .. Correction /\ u = <<u[1], t>> /\ u[2] = t
      BY <1>11, <2>2, <3>1
    <3>3. t \in Nat
      BY <1>2
    <3> QED
      BY <1>4, <1>5, <3>1, <3>2, <3>3
  <2> QED
    BY <2>1, <2>2
<1>12. ASSUME NEW r \in Slots \ {s}, Holds(r)', NEW j \in LocalScan .. Correction
       PROVE  /\ <<j, at'[r]>> \in began' => j <= Part(r)'
              /\ j <= PartOver(r)' => <<j, at'[r]>> \in ended'
  <2>1. /\ Holds(r) /\ at'[r] = at[r] /\ Part(r)' = Part(r) /\ PartOver(r)' = PartOver(r)
    BY <1>3, <1>4, <1>12 DEF Part, PartOver
  <2>2. <<j, at[r]>> \in began' => <<j, at[r]>> \in began
    <3>1. Holds(s) => at[r] # t
      BY <1>1, <2>1 DEF LookPlaces
    <3> QED
      BY <1>9, <1>10, <3>1
  <2>3. /\ <<j, at[r]>> \in began => j <= Part(r)
        /\ j <= PartOver(r) => <<j, at[r]>> \in ended
    BY <1>1, <2>1 DEF LookBegan
  <2> QED
    BY <1>3, <2>1, <2>2, <2>3
<1>13. ASSUME Holds(s)', NEW j \in LocalScan .. Correction
       PROVE  /\ <<j, at'[s]>> \in began' => j <= Part(s)'
              /\ j <= PartOver(s)' => <<j, at'[s]>> \in ended'
  <2>1. CASE ClaimTile(s)
    <3>1. pc'[s] = "taken" /\ at'[s] = nextTile[layout[s]] /\ ~Taken(at'[s]) /\ Old
      BY <1>10, <1>13, <2>1, Claims DEF Holds
    <3>2. <<j, at'[s]>> \notin began
      BY <1>1, <3>1 DEF LookBegan
    <3>3. Part(s)' = 0 /\ PartOver(s)' = 0
      BY <3>1 DEF Part, PartOver
    <3> QED
      BY <3>1, <3>2, <3>3 DEF LocalScan, Correction
  <2>2. CASE ~ClaimTile(s)
    <3>1. Holds(s) /\ at'[s] = t
      BY <1>4, <1>13, <2>2
    <3>2. \A i \in LocalScan .. Correction :
            /\ <<i, t>> \in began => i <= Part(s)
            /\ i <= PartOver(s) => <<i, t>> \in ended
      BY <1>1, <3>1 DEF LookBegan
    <3>3. CASE Old /\ Part(s)' = Part(s) /\ PartOver(s)' = PartOver(s)
      BY <3>1, <3>2, <3>3
    <3>4. CASE New
      <4>1. PICK i \in LocalScan .. Correction :
              /\ began' = began \union {<<i, t>>} /\ ended' = ended
              /\ Part(s) < i /\ PartOver(s) = i - 1
              /\ pc'[s] = "body" /\ item'[s] = <<i, t>>
        BY <3>4
      <4>2. Part(s)' = i /\ PartOver(s)' = i - 1
        BY <4>1 DEF Part, PartOver
      <4>3. Part(s) \in Int
        BY <1>2 DEF Part, LocalScan, Walk
      <4>4. <<j, t>> \in began' => j = i \/ j <= Part(s)
        BY <3>2, <4>1
      <4> QED
        BY <3>1, <3>2, <4>1, <4>2, <4>3, <4>4 DEF LocalScan, Correction
    <3>5. CASE Finishes
      <4>1. PICK i \in LocalScan .. Correction :
              /\ pc[s] = "body" /\ item[s] = <<i, t>>
              /\ began' = began /\ ended' = ended \union {<<i, t>>}
              /\ Part(s)' = i /\ PartOver(s)' = i
        BY <1>13, <3>5
      <4>2. Part(s) = i /\ PartOver(s) = i - 1
        BY <4>1 DEF Part, PartOver
      <4>3. j <= i => j = i \/ j <= i - 1
        BY DEF LocalScan, Correction
      <4> QED
        BY <3>1, <3>2, <4>1, <4>2, <4>3
    <3> QED
      BY <1>9, <1>13, <2>2, <3>3, <3>4, <3>5
  <2> QED
    BY <2>1, <2>2
<1> QED
  BY <1>11, <1>12, <1>13 DEF LookBegan

(* A slot marks the tile it holds and no other. *)
LEMMA LookMarks ==
  ASSUME CommonInv, LookInv, NEW s \in Slots, LookbackSlot(s)
  PROVE  \/ tile' = tile
         \/ /\ Holds(s) /\ at[s] \in 0 .. call.stages - 1
            /\ \E f, v, w : Marks(at[s], f, v, w)
<1>1. Kind = "lookback" /\ LookPlaces
  BY DEF LookbackSlot, LookInv
<1>2. at \in [Slots -> 0 .. call.stages] /\ layout[s] \in Clusters /\ call.stages \in Nat
  BY <1>1, InLook
<1>3. ASSUME Holds(s)
      PROVE  at[s] \in 0 .. call.stages - 1
  <2>1. OfCluster(layout[s], at[s]) /\ at[s] \in Nat
    BY <1>1, <1>2, <1>3 DEF LookPlaces, LookPlace
  <2> QED
    BY <1>1, <1>2, <2>1, TilesApart
<1>4. CASE LookbackBegin(s) \/ ClaimTile(s) \/ StartTile(s) \/ WalkBack(s) \/ WalkOver(s)
           \/ CorrectionOver(s) \/ TileThrow(s)
  BY <1>4 DEF LookbackBegin, ClaimTile, StartTile, WalkBack, WalkOver, CorrectionOver, TileThrow,
     lookbackVars
<1>5. CASE LocalOver(s)
  BY <1>3, <1>5, LookWay DEF Moved, Holds
<1>6. CASE PublishAggregate(s)
  BY <1>3, <1>6, LookWay DEF Moved, Holds
<1>7. CASE PublishPrefix(s)
  <2>1. Holds(s)
    BY <1>7 DEF PublishPrefix, At, Holds
  <2> QED
    BY <1>3, <1>7, <2>1, LookWay
<1>8. CASE ReleaseTile(s)
  <2>1. Holds(s)
    BY <1>8 DEF ReleaseTile, At, Holds
  <2> QED
    BY <1>3, <1>8, <2>1, LookWay
<1> QED
  BY <1>4, <1>5, <1>6, <1>7, <1>8 DEF LookbackSlot

(* A tile that is let go is done with, unless one has thrown. *)
LEMMA LetsGo ==
  ASSUME CommonInv, LookInv, NEW s \in Slots, LookbackSlot(s), exc = None, Holds(s), ~Holds(s)'
  PROVE  TileDone(at[s])'
<1> DEFINE t == at[s]
           Tiles == 0 .. call.stages - 1
<1>1. Kind = "lookback" /\ LookPlaces /\ LookBegan /\ LookValues
  BY DEF LookbackSlot, LookInv
<1>2. /\ pc \in [Slots -> Resting \union {"idle", "body", "flag"}]
      /\ at \in [Slots -> 0 .. call.stages] /\ layout[s] \in Clusters /\ call.stages \in Nat
  BY <1>1, InLook
<1>3. t \in Tiles
  <2>1. OfCluster(layout[s], t) /\ t \in Nat
    BY <1>1, <1>2 DEF LookPlaces, LookPlace
  <2> QED
    BY <1>1, <1>2, <2>1, TilesApart
<1>4. \A j \in LocalScan .. Correction : j <= PartOver(s) => <<j, t>> \in ended
  BY <1>1, SMTT(30) DEF LookBegan
<1>5. tile = [r \in Tiles |-> Tile(tile[r].flag, tile[r].aggregate, tile[r].prefix)]
  BY <1>1 DEF LookValues
<1>6. CASE PublishPrefix(s)
  <2>1. /\ Marks(t, 2, tile[t].aggregate, acc[s])
        /\ \/ t = 0 /\ Moved(s, "prefix", "wait") /\ UNCHANGED <<exc, history>>
           \/ Moved(s, "prefix", "body")
    BY <1>6, LookWay
  <2>2. t = 0 /\ pc[s] = "prefix" /\ ended' = ended /\ at'[s] = t
    <3>1. pc'[s] # "body"
      BY DEF Holds
    <3> QED
      BY <1>6, <2>1, <3>1 DEF Moved, history, PublishPrefix
  <2>3. tile'[t].flag = 2
    BY <1>3, <1>5, <2>1 DEF Marks, Tile
  <2>4. \A j \in LocalScan .. Correction : j # Correction => <<j, t>> \in ended
    <3>1. PartOver(s) = 2
      BY <2>2 DEF PartOver, Part, Walk
    <3> QED
      BY <1>4, <3>1 DEF LocalScan, Correction
  <2> QED
    BY <2>2, <2>3, <2>4 DEF TileDone
<1>7. CASE CorrectionOver(s)
  <2>1. /\ InPart(s, Correction) /\ Ended(item[s]) /\ tile' = tile /\ at' = at
    BY <1>7, LookWay DEF CorrectionOver, Complete
  <2>2. tile[t].flag = 2
    BY <1>1, <2>1 DEF LookValues
  <2>3. item[s] = <<Correction, t>> /\ PartOver(s) = 2
    BY <1>1, <2>1 DEF InPart, LookPlaces, LookPlace, PartOver, Correction
  <2>4. \A j \in LocalScan .. Correction : <<j, t>> \in ended'
    <3>1. \A j \in LocalScan .. Correction : j <= 2 \/ j = Correction
      BY DEF LocalScan, Correction
    <3> QED
      BY <1>4, <2>1, <2>3, <3>1 DEF Ended
  <2> QED
    BY <2>1, <2>2, <2>4 DEF TileDone
<1>8. CASE LookbackBegin(s) \/ ClaimTile(s)
  BY <1>8, LookWay, Claims DEF Moved, Holds
<1>9. CASE StartTile(s) \/ LocalOver(s) \/ PublishAggregate(s) \/ WalkBack(s) \/ WalkOver(s)
           \/ TileThrow(s)
  <2>1. Holds(s)'
    <3>1. CASE StartTile(s)
      BY <3>1, LookWay DEF Moved, Holds
    <3>2. CASE LocalOver(s)
      BY <3>2, LookWay DEF Moved, Holds
    <3>3. CASE PublishAggregate(s)
      BY <3>3, LookWay DEF Moved, Holds
    <3>4. CASE WalkBack(s)
      BY <3>4, LookWay DEF InPart, Holds
    <3>5. CASE WalkOver(s)
      BY <3>5, LookWay DEF Moved, Holds
    <3>6. CASE TileThrow(s)
      BY <3>6, LookWay DEF Moved, Holds
    <3> QED
      BY <1>9, <3>1, <3>2, <3>3, <3>4, <3>5, <3>6
  <2> QED
    BY <2>1
<1>10. ~ReleaseTile(s)
  BY LookWay
<1> QED
  BY <1>6, <1>7, <1>8, <1>9, <1>10 DEF LookbackSlot

LEMMA LookCourseKept ==
  ASSUME CommonInv, LookInv, NEW s \in Slots, LookbackSlot(s)
  PROVE  LookCourse'
<1> DEFINE Tiles == 0 .. call.stages - 1
<1>1. Kind = "lookback" /\ LookPlaces /\ LookBegan /\ LookCourse /\ LookValues
  BY DEF LookbackSlot, LookInv
<1>2. /\ layout' = layout /\ call' = call
      /\ \A r \in Slots \ {s} : pc'[r] = pc[r] /\ at'[r] = at[r]
      /\ ended \subseteq ended'
      /\ exc' = None => exc = None
      /\ ~ClaimTile(s) => nextTile' = nextTile
  BY LookFrame
<1>3. /\ ~ClaimTile(s) /\ Holds(s)' => Holds(s) /\ at' = at
      /\ \A r \in Slots \ {s} : Holds(r)' <=> Holds(r)
      /\ nextTile \in [Slots -> Nat]
  BY <1>1, HoldsStay DEF LookPlaces
<1>4. /\ Clusters' = Clusters /\ Clusters \subseteq Slots
      /\ \A k, t : OfCluster(k, t)' <=> OfCluster(k, t)
      /\ layout[s] \in Slots
  BY <1>1, <1>2, TilesStay, TheLastCluster, InLook
<1> SUFFICES ASSUME exc = None, NEW t \in Tiles, Taken(t)'
             PROVE  TileDone(t)' \/ \E r \in Slots : Holds(r)' /\ at'[r] = t
  BY <1>2 DEF LookCourse
<1>5. CASE Taken(t)
  <2>1. TileDone(t) \/ \E r \in Slots : Holds(r) /\ at[r] = t
    BY <1>1, <1>5 DEF LookCourse
  <2>2. ASSUME NEW r \in Slots, Holds(r), at[r] = t
        PROVE  TileDone(t)' \/ \E q \in Slots : Holds(q)' /\ at'[q] = t
    <3>1. CASE r # s
      BY <1>2, <1>3, <2>2, <3>1
    <3>2. CASE r = s /\ Holds(s)'
      <4>1. ~ClaimTile(s)
        BY <2>2, <3>2, Claims
      <4> QED
        BY <1>3, <2>2, <3>2, <4>1
    <3>3. CASE r = s /\ ~Holds(s)'
      <4>1. TileDone(at[s])'
        BY <2>2, <3>3, LetsGo
      <4>2. at'[s] = at[s]
        <5>1. ~ClaimTile(s) /\ ~LookbackBegin(s)
          BY <2>2, <3>3, Claims, LookWay DEF Moved, Holds
        <5> QED
          BY <5>1, LookFrame
      <4> QED
        BY <2>2, <3>3, <4>1, <4>2 DEF TileDone
    <3> QED
      BY <3>1, <3>2, <3>3
  <2>3. ASSUME TileDone(t), ~ \E r \in Slots : Holds(r) /\ at[r] = t
        PROVE  TileDone(t)'
    <3>1. tile'[t] = tile[t]
      <4>1. tile = [q \in Tiles |-> Tile(tile[q].flag, tile[q].aggregate, tile[q].prefix)]
        BY <1>1 DEF LookValues
      <4>2. CASE tile' = tile
        BY <4>2
      <4>3. ASSUME Holds(s), NEW f, NEW v, NEW w, Marks(at[s], f, v, w)
            PROVE  tile'[t] = tile[t]
        BY <2>3, <4>1, <4>3 DEF Marks
      <4> QED
        BY <4>2, <4>3, LookMarks
    <3> QED
      BY <1>2, <2>3, <3>1 DEF TileDone
  <2> QED
    BY <2>1, <2>2, <2>3
<1>6. CASE ~Taken(t)
  <2>1. PICK k \in Clusters : OfCluster(k, t) /\ t < nextTile'[k]
    BY <1>4 DEF Taken
  <2>2. ~(t < nextTile[k])
    BY <1>6, <2>1 DEF Taken
  <2>3. ClaimTile(s)
    BY <1>2, <2>1, <2>2
  <2>4. nextTile' = [nextTile EXCEPT ![layout[s]] = @ + 1]
    BY <2>3, Claims
  <2>5. k = layout[s] /\ nextTile'[k] = nextTile[k] + 1
    BY <1>3, <1>4, <2>1, <2>2, <2>4
  <2>6. t = nextTile[k]
    BY <1>3, <1>4, <2>1, <2>2, <2>5
  <2>7. pc'[s] = "taken" /\ at'[s] = t
    <3>1. \/ ~OfCluster(layout[s], nextTile[layout[s]])
          \/ pc'[s] = "taken" /\ at'[s] = nextTile[layout[s]]
      BY <2>3, Claims
    <3> QED
      BY <2>1, <2>5, <2>6, <3>1
  <2> QED
    BY <2>7 DEF Holds
<1> QED
  BY <1>5, <1>6

(* The walk: what it has gathered reaches from its cursor to its own tile. *)
LEMMA CursorIs ==
  ASSUME NEW s, at[s] \in Nat, NEW c \in 0 .. at[s], acc[s] = Upto(c, at[s])
  PROVE  Cursor(s) = c
<1>1. Len(acc[s]) = at[s] - c
  BY UptoIs
<1> QED
  BY <1>1 DEF Cursor

TileIs(t, x) ==
  /\ x.flag \in 0 .. 2
  /\ x.flag >= 1 => x.aggregate = <<t>>
  /\ x.flag = 2 => x.prefix = FirstNats(t)

SlotValue(s) ==
  /\ pc[s] \in {"aggregate", "prefix"} \/ InPart(s, Walk) => tile[at[s]].aggregate = <<at[s]>>
  /\ InPart(s, Walk) => \E c \in 0 .. at[s] : acc[s] = Upto(c, at[s])
  /\ pc[s] = "prefix" \/ InPart(s, Correction) => acc[s] = FirstNats(at[s])
  /\ InPart(s, Correction) => tile[at[s]].flag = 2

LEMMA TileShapeKept ==
  ASSUME CommonInv, LookInv, NEW s \in Slots, LookbackSlot(s)
  PROVE  /\ (tile = [t \in 0 .. call.stages - 1 |-> Tile(tile[t].flag, tile[t].aggregate, tile[t].prefix)])'
         /\ (acc = [t \in Slots |-> acc[t]])'
         /\ \A t \in Slots \ {s} : acc'[t] = acc[t]
         /\ \A t \in 0 .. call.stages - 1 : t # at[s] \/ ~Holds(s) => tile'[t] = tile[t]
<1> DEFINE Tiles == 0 .. call.stages - 1
<1>1. /\ tile = [t \in Tiles |-> Tile(tile[t].flag, tile[t].aggregate, tile[t].prefix)]
      /\ acc = [t \in Slots |-> acc[t]]
  BY DEF LookbackSlot, LookInv, LookValues
<1>2. call' = call
  BY LookFrame
<1>3. \A t : acc' = acc \/ \E v : acc' = [acc EXCEPT ![s] = v]
  <2>1. CASE LookbackBegin(s) \/ ClaimTile(s) \/ StartTile(s) \/ LocalOver(s) \/ PublishPrefix(s)
             \/ CorrectionOver(s) \/ TileThrow(s) \/ ReleaseTile(s)
    BY <2>1 DEF LookbackBegin, ClaimTile, StartTile, LocalOver, PublishPrefix, CorrectionOver,
       TileThrow, ReleaseTile, lookbackVars
  <2>2. CASE PublishAggregate(s) \/ WalkBack(s) \/ WalkOver(s)
    BY <2>2, LookWay
  <2> QED
    BY <2>1, <2>2 DEF LookbackSlot
<1>4. (acc = [t \in Slots |-> acc[t]])' /\ \A t \in Slots \ {s} : acc'[t] = acc[t]
  <2>1. CASE acc' = acc
    BY <1>1, <2>1
  <2>2. ASSUME NEW v, acc' = [acc EXCEPT ![s] = v]
        PROVE  (acc = [t \in Slots |-> acc[t]])' /\ \A t \in Slots \ {s} : acc'[t] = acc[t]
    BY <1>1, <2>2
  <2> QED
    BY <1>3, <2>1, <2>2
<1>5. CASE tile' = tile
  BY <1>1, <1>2, <1>4, <1>5
<1>6. ASSUME Holds(s), at[s] \in Tiles, NEW f, NEW v, NEW w, Marks(at[s], f, v, w)
      PROVE  /\ (tile = [t \in Tiles |-> Tile(tile[t].flag, tile[t].aggregate, tile[t].prefix)])'
             /\ \A t \in Tiles : t # at[s] \/ ~Holds(s) => tile'[t] = tile[t]
  <2>1. /\ tile' = [t \in Tiles |-> tile'[t]] /\ tile'[at[s]] = Tile(f, v, w)
        /\ \A t \in Tiles : t # at[s] => tile'[t] = tile[t]
    BY <1>1, <1>6 DEF Marks
  <2>2. \A t \in Tiles : tile'[t] = Tile(tile'[t].flag, tile'[t].aggregate, tile'[t].prefix)
    <3> SUFFICES ASSUME NEW t \in Tiles
                 PROVE  tile'[t] = Tile(tile'[t].flag, tile'[t].aggregate, tile'[t].prefix)
      OBVIOUS
    <3>1. CASE t = at[s]
      BY <2>1, <3>1 DEF Tile
    <3>2. CASE t # at[s]
      <4>1. tile[t] = Tile(tile[t].flag, tile[t].aggregate, tile[t].prefix)
        BY <1>1
      <4> QED
        BY <2>1, <3>2, <4>1
    <3> QED
      BY <3>1, <3>2
  <2>3. tile' = [t \in Tiles |-> Tile(tile'[t].flag, tile'[t].aggregate, tile'[t].prefix)]
    BY <2>1, <2>2
  <2> QED
    BY <1>2, <1>6, <2>1, <2>3
<1> QED
  BY <1>4, <1>5, <1>6, LookMarks

LEMMA LookValuesKept ==
  ASSUME CommonInv, LookInv, NEW s \in Slots, LookbackSlot(s)
  PROVE  LookValues'
<1> DEFINE t == at[s]
           Tiles == 0 .. call.stages - 1
<1>1. Kind = "lookback" /\ LookPlaces /\ LookValues
  BY DEF LookbackSlot, LookInv
<1>2. /\ pc \in [Slots -> Resting \union {"idle", "body", "flag"}]
      /\ at \in [Slots -> 0 .. call.stages] /\ call.stages \in Nat
      /\ \A r \in Slots : layout[r] \in Clusters
  BY <1>1, InLook
<1>3. /\ call' = call
      /\ \A r \in Slots \ {s} : pc'[r] = pc[r] /\ at'[r] = at[r] /\ item'[r] = item[r]
      /\ exc' = None => exc = None
      /\ ~LookbackBegin(s) /\ ~ClaimTile(s) => at' = at
  BY LookFrame
<1>4. /\ (tile = [r \in Tiles |-> Tile(tile[r].flag, tile[r].aggregate, tile[r].prefix)])'
      /\ (acc = [r \in Slots |-> acc[r]])'
      /\ \A r \in Slots \ {s} : acc'[r] = acc[r]
      /\ \A r \in Tiles : r # t \/ ~Holds(s) => tile'[r] = tile[r]
  BY <1>3, TileShapeKept
<1>5. /\ tile = [r \in Tiles |-> Tile(tile[r].flag, tile[r].aggregate, tile[r].prefix)]
      /\ acc = [r \in Slots |-> acc[r]]
  BY <1>1 DEF LookValues
<1>6. \A r \in Slots : Holds(r) => at[r] \in Tiles
  <2> SUFFICES ASSUME NEW r \in Slots, Holds(r) PROVE at[r] \in Tiles
    OBVIOUS
  <2>1. OfCluster(layout[r], at[r]) /\ at[r] \in Nat /\ layout[r] \in Clusters
    BY <1>1, <1>2 DEF LookPlaces, LookPlace
  <2> QED
    BY <1>1, <2>1, TilesApart
<1> SUFFICES ASSUME exc = None, exc' = None
             PROVE  /\ \A r \in Tiles : TileIs(r, tile'[r])
                    /\ \A r \in Slots : SlotValue(r)'
  BY <1>3, <1>4 DEF LookValues, TileIs, SlotValue
<1>7. /\ \A r \in Tiles : TileIs(r, tile[r])
      /\ \A r \in Slots : SlotValue(r)
  BY <1>1 DEF LookValues, TileIs, SlotValue
<1>8. ASSUME NEW r \in Slots \ {s}
      PROVE  SlotValue(r)'
  <2>1. SlotValue(r)
    BY <1>7
  <2>2. /\ pc'[r] = pc[r] /\ at'[r] = at[r] /\ acc'[r] = acc[r]
        /\ \A j : InPart(r, j)' <=> InPart(r, j)
    BY <1>3, <1>4 DEF InPart
  <2>3. CASE Holds(r)
    <3>1. at[r] \in Tiles /\ (Holds(s) => at[r] # t)
      BY <1>1, <1>6, <2>3 DEF LookPlaces
    <3>2. tile'[at[r]] = tile[at[r]]
      BY <1>4, <3>1
    <3> QED
      BY <2>1, <2>2, <3>2 DEF SlotValue
  <2>4. CASE ~Holds(r)
    BY <2>2, <2>4 DEF SlotValue, Holds, InPart
  <2> QED
    BY <2>3, <2>4
<1>9. \A r \in Tiles : r # t \/ ~Holds(s) => TileIs(r, tile'[r])
  BY <1>4, <1>7 DEF TileIs
<1>10. ASSUME Holds(s)
       PROVE  TileIs(t, tile[t]) /\ SlotValue(s) /\ t \in Tiles /\ t \in Nat
  <2>1. t \in Tiles
    BY <1>6, <1>10
  <2>2. TileIs(t, tile[t]) /\ SlotValue(s)
    BY <1>7, <2>1
  <2> QED
    BY <1>2, <2>1, <2>2
<1>11. ASSUME Holds(s), NEW f, NEW v, NEW w, Marks(t, f, v, w)
       PROVE  tile'[t].flag = f /\ tile'[t].aggregate = v /\ tile'[t].prefix = w
  BY <1>5, <1>10, <1>11 DEF Marks, Tile
<1> SUFFICES (Holds(s) => TileIs(t, tile'[t])) /\ SlotValue(s)'
  BY <1>8, <1>9
<1>12. CASE LookbackBegin(s) \/ ClaimTile(s)
  <2>1. ~Holds(s) /\ pc'[s] \in {"wait", "out", "taken"}
    BY <1>12, LookWay, Claims DEF Moved, Holds
  <2> QED
    BY <2>1 DEF SlotValue, InPart
<1>13. CASE StartTile(s)
  <2>1. /\ tile' = tile /\ at' = at /\ Holds(s)
        /\ pc'[s] = "identity" \/ (pc'[s] = "body" /\ item'[s] = <<LocalScan, t>>)
    <3>1. tile' = tile /\ at' = at
      BY <1>13 DEF StartTile, lookbackVars
    <3>2. /\ pc[s] = "taken"
          /\ pc'[s] = "identity" \/ (pc'[s] = "body" /\ item'[s] = <<LocalScan, t>>)
      BY <1>13, LookWay DEF Moved
    <3> QED
      BY <3>1, <3>2 DEF Holds
  <2>2. TileIs(t, tile'[t])
    BY <1>10, <2>1 DEF TileIs
  <2>3. ~InPart(s, Walk)' /\ ~InPart(s, Correction)'
    BY <2>1 DEF InPart, LocalScan, Walk, Correction
  <2> QED
    BY <2>1, <2>2, <2>3 DEF SlotValue
<1>14. CASE LocalOver(s)
  <2>1. /\ Holds(s) /\ pc'[s] = "aggregate" /\ at' = at
        /\ Marks(t, tile[t].flag, <<t>>, tile[t].prefix)
    BY <1>14, LookWay DEF Moved, Holds, LocalOver, Complete
  <2>2. tile'[t].flag = tile[t].flag /\ tile'[t].aggregate = <<t>> /\ tile'[t].prefix = tile[t].prefix
    BY <1>11, <2>1
  <2> QED
    BY <1>10, <2>1, <2>2 DEF TileIs, SlotValue, InPart
<1>15. CASE PublishAggregate(s)
  <2>1. /\ Holds(s) /\ pc[s] = "aggregate" /\ pc'[s] = "body" /\ item'[s] = <<Walk, t>> /\ at' = at
        /\ Marks(t, 1, tile[t].aggregate, tile[t].prefix)
        /\ acc' = [acc EXCEPT ![s] = Identity]
    BY <1>15, LookWay DEF Moved, Holds, PublishAggregate
  <2>2. tile'[t].flag = 1 /\ tile'[t].aggregate = tile[t].aggregate
    BY <1>11, <2>1
  <2>3. tile[t].aggregate = <<t>>
    BY <1>10, <2>1 DEF SlotValue
  <2>4. acc'[s] = Upto(t, t)
    BY <1>5, <1>10, <2>1, UptoIs
  <2>5. t \in 0 .. t
    BY <1>10, <2>1
  <2> QED
    BY <2>1, <2>2, <2>3, <2>4, <2>5 DEF TileIs, SlotValue, InPart, Walk, Correction
<1>16. CASE WalkBack(s)
  <2> DEFINE p == Cursor(s) - 1
  <2>1. /\ InPart(s, Walk) /\ UNCHANGED <<pc, item, at, tile>> /\ Holds(s)
        /\ Cursor(s) > 0 /\ tile[p].flag = 1
        /\ acc' = [acc EXCEPT ![s] = tile[p].aggregate \o acc[s]]
    BY <1>16, LookWay DEF WalkBack, stagedVars, InPart, Holds
  <2>2. PICK c \in 0 .. t : acc[s] = Upto(c, t)
    BY <1>10, <2>1 DEF SlotValue
  <2>3. Cursor(s) = c /\ c \in Nat /\ c # 0 /\ p = c - 1 /\ p \in Tiles /\ p \in Nat /\ p + 1 = c
    <3>1. t \in Nat /\ t \in Tiles /\ c \in 0 .. t
      BY <1>10, <2>1, <2>2
    <3>2. Cursor(s) = c
      BY <2>2, <3>1, CursorIs
    <3>3. c \in Nat /\ c > 0 /\ t <= call.stages - 1
      BY <1>2, <2>1, <3>1, <3>2
    <3> QED
      BY <1>2, <3>1, <3>2, <3>3
  <2>4. tile[p].aggregate = <<p>>
    BY <1>7, <2>1, <2>3 DEF TileIs
  <2>5. <<p>> = Upto(p, c)
    BY <2>3, UptoIs
  <2>6. Upto(p, c) \o Upto(c, t) = Upto(p, t)
    <3>1. t \in Nat /\ c \in 0 .. t /\ p \in 0 .. c
      BY <1>10, <2>1, <2>2, <2>3
    <3> QED
      BY <3>1, UptoGlues
  <2>7. acc'[s] = Upto(p, t) /\ p \in 0 .. t
    <3>1. p \in 0 .. t
      BY <1>10, <2>1, <2>2, <2>3
    <3>2. acc'[s] = tile[p].aggregate \o acc[s]
      BY <1>5, <2>1
    <3> QED
      BY <2>2, <2>4, <2>5, <2>6, <3>1, <3>2
  <2>8. TileIs(t, tile[t]) /\ SlotValue(s)
    BY <1>10, <2>1
  <2> HIDE DEF p
  <2> QED
    BY <2>1, <2>7, <2>8 DEF TileIs, SlotValue, InPart, Walk, Correction
<1>17. CASE WalkOver(s)
  <2> DEFINE p == Cursor(s) - 1
  <2>1. /\ InPart(s, Walk) /\ pc'[s] = "prefix" /\ UNCHANGED <<at, tile>> /\ Holds(s)
        /\ \/ Cursor(s) = 0 /\ UNCHANGED acc
           \/ /\ Cursor(s) > 0 /\ tile[p].flag = 2
              /\ acc' = [acc EXCEPT ![s] = (tile[p].prefix \o tile[p].aggregate) \o acc[s]]
    BY <1>17, LookWay DEF WalkOver, Complete, InPart, Moved, Holds
  <2>2. PICK c \in 0 .. t : acc[s] = Upto(c, t)
    BY <1>10, <2>1 DEF SlotValue
  <2>3. Cursor(s) = c /\ c \in Nat /\ t \in Nat /\ c \in 0 .. t /\ t <= call.stages - 1
    <3>1. t \in Nat /\ t \in Tiles /\ c \in 0 .. t
      BY <1>10, <2>1, <2>2
    <3>2. Cursor(s) = c
      BY <2>2, <3>1, CursorIs
    <3> QED
      BY <1>2, <3>1, <3>2
  <2>4. acc'[s] = FirstNats(t)
    <3>1. FirstNats(t) = Upto(0, t)
      BY <2>3, UptoIs
    <3>2. CASE c = 0
      BY <2>1, <2>2, <2>3, <3>1, <3>2
    <3>3. CASE c # 0
      <4>1. p \in Tiles /\ p \in Nat /\ p + 1 = c /\ tile[p].flag = 2
            /\ acc' = [acc EXCEPT ![s] = (tile[p].prefix \o tile[p].aggregate) \o acc[s]]
        <5>1. /\ Cursor(s) > 0 /\ tile[p].flag = 2
              /\ acc' = [acc EXCEPT ![s] = (tile[p].prefix \o tile[p].aggregate) \o acc[s]]
          BY <2>1, <2>3, <3>3
        <5> QED
          BY <1>2, <2>3, <5>1
      <4>2. tile[p].prefix = FirstNats(p) /\ tile[p].aggregate = <<p>>
        BY <1>7, <4>1 DEF TileIs
      <4> HIDE DEF p
      <4>3. FirstNats(p) = Upto(0, p) /\ <<p>> = Upto(p, c)
        BY <4>1, UptoIs
      <4>4. Upto(0, p) \o Upto(p, c) = Upto(0, c)
        <5>1. p \in 0 .. c /\ 0 \in 0 .. p
          BY <2>3, <4>1
        <5> QED
          BY <2>3, <5>1, UptoGlues
      <4>5. Upto(0, c) \o Upto(c, t) = Upto(0, t)
        <5>1. 0 \in 0 .. c
          BY <2>3
        <5> QED
          BY <2>3, <5>1, UptoGlues
      <4>6. acc'[s] = (tile[p].prefix \o tile[p].aggregate) \o acc[s]
        BY <1>5, <4>1
      <4> QED
        BY <2>2, <3>1, <4>2, <4>3, <4>4, <4>5, <4>6
    <3> QED
      BY <3>2, <3>3
  <2>5. TileIs(t, tile[t]) /\ SlotValue(s)
    BY <1>10, <2>1
  <2> QED
    BY <2>1, <2>4, <2>5 DEF TileIs, SlotValue, InPart
<1>18. CASE PublishPrefix(s)
  <2>1. /\ pc[s] = "prefix" /\ Holds(s) /\ UNCHANGED <<at, acc>>
        /\ Marks(t, 2, tile[t].aggregate, acc[s])
        /\ pc'[s] = "wait" \/ (pc'[s] = "body" /\ item'[s] = <<Correction, t>>)
    BY <1>18, LookWay DEF PublishPrefix, Moved, At, Holds
  <2>2. tile'[t].flag = 2 /\ tile'[t].aggregate = tile[t].aggregate /\ tile'[t].prefix = acc[s]
    BY <1>11, <2>1
  <2>3. tile[t].aggregate = <<t>> /\ acc[s] = FirstNats(t)
    BY <1>10, <2>1 DEF SlotValue
  <2> QED
    BY <2>1, <2>2, <2>3, SMTT(30) DEF TileIs, SlotValue, InPart, Walk, Correction
<1>19. CASE CorrectionOver(s)
  <2>1. Holds(s) /\ pc'[s] = "wait" /\ UNCHANGED <<tile, acc, at>>
    <3>1. at' = at
      BY <1>19 DEF CorrectionOver, Complete
    <3> QED
      BY <1>19, <3>1, LookWay DEF InPart, Moved, Holds
  <2>2. TileIs(t, tile'[t])
    BY <1>10, <2>1 DEF TileIs
  <2> QED
    BY <2>1, <2>2 DEF SlotValue, InPart
<1>20. ~TileThrow(s) /\ ~ReleaseTile(s)
  BY LookWay
<1> QED
  BY <1>12, <1>13, <1>14, <1>15, <1>16, <1>17, <1>18, <1>19, <1>20 DEF LookbackSlot

LEMMA LookKept ==
  ASSUME CommonInv, LookInv, NEW s \in Slots, LookbackSlot(s)
  PROVE  LookInv'
BY LookPlacesKept, LookBeganKept, LookCourseKept, LookValuesKept DEF LookInv

(* The tiles are new in every call. *)
LEMMA LookOpens ==
  ASSUME CommonInv, OpenCall
  PROVE  LookInv'
<1> SUFFICES ASSUME Kind' = "lookback" PROVE LookInv'
  BY DEF LookInv
<1> DEFINE c == call'
           y == layout'
<1>1. /\ CommonInv' /\ call' # NoCall /\ began' = {}
      /\ \A s \in Slots : pc'[s] = "idle" /\ at'[s] = 0
  BY OpenKeeps
<1>2. /\ layout' = layout /\ call' = Head(calls)
      /\ tile' = [t \in 0 .. call'.stages - 1 |-> NoTile]
      /\ nextTile' = [k \in Slots |-> IF k \in Clusters THEN FirstTile(call'.stages, k) ELSE 0]
      /\ acc' = [s \in Slots |-> Identity]
  BY DEF OpenCall, Open, LookbackOpen
<1>3. /\ layout \in [Slots -> Slots] /\ layout[0] = 0 /\ call'.stages \in Nat
  BY <1>1, OpenKeeps, AtHand DEF CommonInv, IsCall
<1>4. /\ Clusters' = Clusters /\ Clusters \subseteq Slots
      /\ \A k \in Clusters : FirstTile(call'.stages, k) \in Nat
  BY <1>2, <1>3, TheLastCluster, TileTable DEF Clusters
<1>5. \A k : FirstTile(call.stages, k)' = FirstTile(call'.stages, k)
  <2>1. LastCluster' = LastCluster
    BY <1>4 DEF LastCluster
  <2>2. \A n, k : Share(n, k)' = Share(n, k)
    BY <1>2 DEF Share, Members
  <2> QED
    BY <2>1, <2>2 DEF FirstTile, FirstTiles
<1>6. \A s \in Slots : ~Holds(s)' /\ \A j : ~InPart(s, j)'
  BY <1>1 DEF Holds, InPart
<1>7. /\ nextTile' \in [Slots -> Nat]
      /\ \A k \in Clusters' : FirstTile(call.stages, k)' <= nextTile'[k]
  <2>1. nextTile' \in [Slots -> Nat]
    BY <1>2, <1>4
  <2>2. \A k \in Clusters : nextTile'[k] = FirstTile(call'.stages, k)
    BY <1>2, <1>4
  <2> QED
    BY <1>4, <1>5, <2>1, <2>2
<1>8. LookPlaces'
  BY <1>1, <1>6, <1>7 DEF LookPlaces, LookPlace
<1>9. LookBegan'
  BY <1>1, <1>6 DEF LookBegan
<1>10. \A t \in Nat : ~Taken(t)'
  <2> SUFFICES ASSUME NEW t \in Nat, NEW k \in Clusters, OfCluster(k, t)', t < nextTile'[k]
               PROVE  FALSE
    BY <1>4 DEF Taken
  <2>1. FirstTile(call'.stages, k) <= t /\ FirstTile(call'.stages, k) \in Nat
    BY <1>4, <1>5 DEF OfCluster
  <2>2. nextTile'[k] = FirstTile(call'.stages, k)
    BY <1>2, <1>4
  <2> QED
    BY <2>1, <2>2
<1>11. LookCourse'
  BY <1>3, <1>10 DEF LookCourse
<1>12. LookValues'
  <2>1. \A t \in 0 .. call'.stages - 1 : tile'[t] = Tile(0, Unset, Unset)
    BY <1>2 DEF NoTile, Tile
  <2>2. \A t \in 0 .. call'.stages - 1 :
          /\ tile'[t].flag = 0
          /\ tile'[t] = Tile(tile'[t].flag, tile'[t].aggregate, tile'[t].prefix)
    BY <2>1 DEF Tile
  <2>3. tile' = [t \in 0 .. call'.stages - 1 |-> Tile(tile'[t].flag, tile'[t].aggregate, tile'[t].prefix)]
    BY <1>2, <2>2
  <2> QED
    BY <1>1, <1>2, <1>6, <2>2, <2>3 DEF LookValues
<1> QED
  BY <1>8, <1>9, <1>11, <1>12 DEF LookInv

(* When all slots are out, every tile has been taken and is done with. *)
LEMMA LookDone ==
  ASSUME CommonInv, LookInv, Kind = "lookback", Through, exc = None
  PROVE  /\ UnitsOf(Current) \subseteq ended
         /\ \A t \in 0 .. call.stages - 1 : TileDone(t)
<1>1. LookPlaces /\ LookCourse
  BY DEF LookInv
<1>2. /\ UnitsOf(Current) = LookbackUnits(call) /\ call.stages \in Nat
      /\ layout \in [Slots -> Slots] /\ layout[0] = 0
  BY InLook
<1>3. \A s \in Slots : pc[s] = "out" /\ ~Holds(s)
  BY DEF Through, At, Holds
<1>4. ASSUME NEW t \in 0 .. call.stages - 1
      PROVE  TileDone(t)
  <2>1. PICK k \in Clusters : FirstTile(call.stages, k) <= t /\ t < LastTile(call.stages, k)
    BY <1>2, TileTable
  <2>2. PICK s \in Slots : layout[s] = k
    BY DEF Clusters
  <2>3. LastTile(call.stages, k) <= nextTile[k]
    BY <1>1, <1>3, <2>2 DEF LookPlaces, LookPlace
  <2>4. t < nextTile[k]
    <3>1. LastTile(call.stages, k) \in 0 .. call.stages /\ nextTile[k] \in Nat
      BY <1>1, <1>2, <2>2, TileTable DEF LookPlaces
    <3> QED
      BY <2>1, <2>3, <3>1
  <2>5. Taken(t)
    BY <2>1, <2>4 DEF Taken, OfCluster
  <2> QED
    BY <1>1, <1>3, <2>5 DEF LookCourse
<1>5. ASSUME NEW u \in LookbackUnits(call)
      PROVE  u \in ended
  <2>1. /\ u = <<u[1], u[2]>> /\ u[1] \in LocalScan .. Correction /\ u[2] \in 0 .. call.stages - 1
        /\ u[1] # Correction \/ u[2] # 0
    BY DEF LookbackUnits, LocalScan, Walk, Correction
  <2> QED
    BY <1>4, <2>1 DEF TileDone
<1> QED
  BY <1>2, <1>4, <1>5

(***************************************************************************)
(* All calls together.                                                     *)
(***************************************************************************)
(* What a call leaves to the others. *)
KeptInv == /\ published \in BOOLEAN
           /\ Kind # "plex" => phase = 0

IInv == CommonInv /\ ChainInv /\ PlexInv /\ ScanInv /\ LookInv /\ KeptInv

(* A slot runs the call at hand and no other. *)
LEMMA OneKind ==
  ASSUME NEW s \in Slots, Slot(s)
  PROVE  \/ Kind = "chain" /\ ChainSlot(s) /\ UNCHANGED <<phase, published>>
         \/ Kind = "plex" /\ PlexSlot(s) /\ UNCHANGED published
         \/ Kind = "scan" /\ ScanSlot(s) /\ UNCHANGED phase
         \/ Kind = "lookback" /\ LookbackSlot(s) /\ UNCHANGED <<phase, published>>
<1>1. CASE ChainSlot(s) /\ UNCHANGED <<plexVars, scanVars, lookbackVars>>
  BY <1>1 DEF ChainSlot, plexVars, scanVars
<1>2. CASE PlexSlot(s) /\ UNCHANGED <<chainVars, scanVars, lookbackVars>>
  BY <1>2 DEF PlexSlot, scanVars
<1>3. CASE ScanSlot(s) /\ UNCHANGED <<chainVars, plexVars, lookbackVars>>
  BY <1>3 DEF ScanSlot, plexVars
<1>4. CASE LookbackSlot(s) /\ UNCHANGED <<chainVars, plexVars, scanVars>>
  BY <1>4 DEF LookbackSlot, plexVars, scanVars
<1> QED
  BY <1>1, <1>2, <1>3, <1>4 DEF Slot

LEMMA SlotIsStep ==
  ASSUME IInv, NEW s \in Slots, Slot(s)
  PROVE  SlotStep(s) \/ Slips(s)
BY OneKind, ChainSteps, PlexSteps, ScanSteps, LookSteps DEF IInv

LEMMA SlotInv ==
  ASSUME IInv, NEW s \in Slots, Slot(s)
  PROVE  IInv'
<1>1. CommonInv
  BY DEF IInv
<1>2. CASE Kind = "chain" /\ ChainSlot(s) /\ UNCHANGED <<phase, published>>
  <2>1. SlotStep(s)
    BY <1>2, ChainSteps DEF IInv
  <2>2. CommonInv' /\ Kind' = Kind
    BY <1>1, <1>2, <2>1, SlotKeeps, OthersKeep
  <2>3. ChainInv'
    BY <1>1, <1>2, ChainKept DEF IInv
  <2> QED
    BY <1>2, <2>2, <2>3 DEF IInv, KeptInv, PlexInv, ScanInv, LookInv
<1>3. CASE Kind = "plex" /\ PlexSlot(s) /\ UNCHANGED published
  <2>1. SlotStep(s)
    BY <1>3, PlexSteps DEF IInv
  <2>2. CommonInv' /\ Kind' = Kind
    BY <1>1, <1>3, <2>1, SlotKeeps, OthersKeep
  <2>3. PlexInv'
    BY <1>1, <1>3, PlexKept DEF IInv
  <2> QED
    BY <1>3, <2>2, <2>3 DEF IInv, KeptInv, ChainInv, ScanInv, LookInv
<1>4. CASE Kind = "scan" /\ ScanSlot(s) /\ UNCHANGED phase
  <2>1. SlotStep(s)
    BY <1>4, ScanSteps DEF IInv
  <2>2. CommonInv' /\ Kind' = Kind
    BY <1>1, <1>4, <2>1, SlotKeeps, OthersKeep
  <2>3. ScanInv'
    BY <1>1, <1>4, ScanKept DEF IInv
  <2>4. published' \in BOOLEAN
    BY <1>4, <2>2, <2>3 DEF ScanInv, ScanMeets
  <2> QED
    BY <1>4, <2>2, <2>3, <2>4 DEF IInv, KeptInv, ChainInv, PlexInv, LookInv
<1>5. CASE Kind = "lookback" /\ LookbackSlot(s) /\ UNCHANGED <<phase, published>>
  <2>1. done' = done /\ Kind' = Kind
    BY <1>1, <1>5, LookFrame
  <2>2. CommonInv'
    BY <1>1, <1>5, <2>1, LookSteps, SlotKeeps, SlipKeeps DEF IInv
  <2>3. LookInv'
    BY <1>1, <1>5, LookKept DEF IInv
  <2> QED
    BY <1>5, <2>1, <2>2, <2>3 DEF IInv, KeptInv, ChainInv, PlexInv, ScanInv
<1> QED
  BY <1>2, <1>3, <1>4, <1>5, OneKind

(* Nothing of a look-back scan changes when none of its state does. *)
LEMMA LookStays ==
  ASSUME UNCHANGED <<layout, call, pc, at, item, exc, began, ended, tile, nextTile, acc>>
  PROVE  LookInv' = LookInv
<1>1. /\ Clusters' = Clusters /\ Kind' = Kind
      /\ \A k : /\ FirstTile(call.stages, k)' = FirstTile(call.stages, k)
                /\ LastTile(call.stages, k)' = LastTile(call.stages, k)
                /\ \A t : OfCluster(k, t)' = OfCluster(k, t)
  BY TilesStay DEF Kind, OfCluster
<1>2. /\ \A s : Holds(s)' = Holds(s) /\ Part(s)' = Part(s) /\ PartOver(s)' = PartOver(s)
      /\ \A s, j : InPart(s, j)' = InPart(s, j)
      /\ \A t : TileDone(t)' = TileDone(t)
  BY DEF Holds, Part, PartOver, InPart, TileDone
<1>3. \A t : Taken(t)' = Taken(t)
  BY <1>1 DEF Taken
<1>4. LookPlaces' = LookPlaces
  <2>1. \A s : LookPlace(s)' = LookPlace(s)
    BY <1>1, <1>2 DEF LookPlace
  <2> QED
    BY <1>1, <1>2, <2>1 DEF LookPlaces
<1>5. LookBegan' = LookBegan
  BY <1>2, <1>3 DEF LookBegan
<1>6. LookCourse' = LookCourse
  BY <1>2, <1>3 DEF LookCourse
<1>7. LookValues' = LookValues
  BY <1>2 DEF LookValues
<1> QED
  BY <1>1, <1>4, <1>5, <1>6, <1>7 DEF LookInv

(* A token that is stopped tells the slots nothing yet. *)
LEMMA StopInv ==
  ASSUME IInv, StopToken
  PROVE  IInv'
<1>1. CommonInv'
  BY StopKeeps DEF IInv
<1>2. UNCHANGED <<layout, call, job, epochBase, pc, at, item, done, cancelled, began, ended, failed,
                  claimed, phase, partial, published, cluster, exc, tile, nextTile, acc>>
  BY DEF StopToken, Stop, poolVars, history, chainVars, plexVars, scanVars, lookbackVars
<1>3. Kind' = Kind /\ Line' = Line
  BY <1>2 DEF Kind, Line
<1>4. ChainInv'
  <2>1. /\ Dynamic' = Dynamic
        /\ \A i : Behind(i)' = Behind(i)
        /\ \A s, i : /\ Entered(s, i)' = Entered(s, i) /\ Over(s, i)' = Over(s, i)
                     /\ Passed(s, i)' = Passed(s, i) /\ Reached(s, i)' = Reached(s, i)
                     /\ RunsBody(s, i)' = RunsBody(s, i)
    BY <1>2, <1>3 DEF Dynamic, Behind, Entered, Over, Passed, Reached, RunsBody
  <2>2. ChainPlaces' = ChainPlaces
    BY <1>2, <2>1 DEF ChainPlaces, Behind, RunsBody, Dynamic
  <2>3. ChainCourse' = ChainCourse
    BY <1>2, <1>3 DEF ChainCourse, Dynamic, Behind, Entered, Over, Passed, Reached, RunsBody
  <2>4. BeganStatic' = BeganStatic
    BY <1>2 DEF BeganStatic, Behind, Entered, RunsBody
  <2>5. BeganDynamic' = BeganDynamic
    BY <1>2 DEF BeganDynamic, StageNeeds, Entered
  <2> QED
    BY <1>3, <2>1, <2>2, <2>3, <2>4, <2>5 DEF ChainInv, IInv
<1>5. PlexInv'
  BY <1>2, <1>3 DEF PlexInv, IInv, PlexPlaces, PlexBegan, PlexReady, PlexCourse, InHook, InSlice,
     HookPast, SlicePast, Passed, Entered, Reached
<1>6. ScanInv'
  <2>1. ScanPlaces' = ScanPlaces
    BY <1>2 DEF ScanPlaces, InUnit, Hierarchical, IsLeader
  <2>2. ScanBegan' = ScanBegan
    BY <1>2 DEF ScanBegan, Rung, Hierarchical, IsLeader, Thrown, FirstThrown
  <2>3. ScanMeets' = ScanMeets
    BY <1>2, <1>3 DEF ScanMeets, Rung, Hierarchical, IsLeader, Leader, Reached, Thrown, FirstThrown
  <2>4. ScanCourse' = ScanCourse
    BY <1>2 DEF ScanCourse, Rung, Hierarchical, Leader
  <2> QED
    BY <1>3, <2>1, <2>2, <2>3, <2>4 DEF ScanInv, IInv
<1>7. LookInv' /\ KeptInv'
  BY <1>2, <1>3, LookStays DEF KeptInv, IInv
<1> QED
  BY <1>1, <1>4, <1>5, <1>6, <1>7 DEF IInv

LEMMA OpenInv ==
  ASSUME IInv, OpenCall
  PROVE  IInv'
<1>1. CommonInv' /\ ChainInv' /\ PlexInv' /\ ScanInv' /\ LookInv'
  BY OpenKeeps, ChainOpens, PlexOpens, ScanOpens, LookOpens DEF IInv
<1>2. KeptInv'
  BY DEF KeptInv, OpenCall, PlexOpen, ScanOpen
<1> QED
  BY <1>1, <1>2 DEF IInv

LEMMA ReturnInv ==
  ASSUME IInv, ReturnCall
  PROVE  IInv'
<1>1. CommonInv' /\ Kind' = "none"
  BY ReturnKeeps DEF IInv, Kind
<1>2. ChainInv' /\ PlexInv' /\ ScanInv' /\ LookInv'
  BY <1>1 DEF ChainInv, PlexInv, ScanInv, LookInv
<1>3. KeptInv'
  BY DEF KeptInv, ReturnCall, PlexOpen, ScanOpen
<1> QED
  BY <1>1, <1>2, <1>3 DEF IInv

(* A call that returns leaves nothing running and nothing out, unless one  *)
(* has thrown or the token is stopped, and what it rethrows has thrown.    *)
LEMMA ReturnPromise ==
  ASSUME IInv, ReturnCall
  PROVE  Region!Return
<1>1. Through /\ call # NoCall /\ CommonInv
  BY DEF ReturnCall, Return, Through, IInv
<1>2. Current # NoCall /\ call.kind \in {"chain", "plex", "scan", "lookback"}
  BY <1>1, AtHand DEF CommonInv, IsCall
<1>3. Region!Running = {}
  BY <1>1 DEF Region!Running, Through, At, CommonInv, HistInv, Runs
<1>4. ended = UnitsOf(Current) \/ failed # {} \/ stopped
  <2>1. CASE cancelled
    BY <1>1, <2>1 DEF CommonInv, ExcInv
  <2>2. CASE exc # None
    BY <1>1, <2>2 DEF CommonInv, ExcInv
  <2>3. CASE ~cancelled /\ exc = None
    <3>1. UnitsOf(Current) \subseteq ended
      BY <1>1, <1>2, <2>3, ChainDone, PlexDone, ScanDone, LookDone DEF Kind, IInv
    <3>2. ended \subseteq UnitsOf(Current)
      BY <1>1 DEF CommonInv, HistInv
    <3> QED
      BY <3>1, <3>2
  <2> QED
    BY <2>1, <2>2, <2>3
<1>5. outcome' \in (IF failed = {} THEN {None} ELSE failed)
  BY <1>1 DEF ReturnCall, Return, CommonInv, ExcInv
<1>6. /\ call' = NoCall /\ began' = {} /\ ended' = {} /\ failed' = {}
      /\ stopped' = FALSE
  BY DEF ReturnCall, Return
<1> QED
  BY <1>1, <1>2, <1>3, <1>4, <1>5, <1>6 DEF Region!Return, Current

-----------------------------------------------------------------------------
(* The pool is new and no call is made yet. *)
LEMMA InitInv == Init => IInv
<1> SUFFICES ASSUME Init PROVE IInv
  OBVIOUS
<1>1. PICK p \in Pools : layout = p.clusters /\ calls = p.calls
  BY DEF Init, StagedInit
<1>2. /\ call = NoCall /\ job = {} /\ pc = [s \in Slots |-> "idle"]
      /\ at = [s \in Slots |-> 0] /\ item = [s \in Slots |-> None]
      /\ done = [l \in Lines |-> [s \in Slots |-> 0]] /\ epoch = [l \in Lines |-> 0]
      /\ epochBase = 0 /\ cancelled = FALSE /\ exc = None /\ stopped = FALSE
      /\ began = {} /\ ended = {} /\ failed = {}
      /\ phase = 0 /\ published = FALSE
  BY DEF Init, StagedInit, PlexInit, ScanInit
<1>3. Kind = "none"
  BY <1>2 DEF Kind
<1>4. TypeInv
  <2>1. Stages = 0 /\ WrapAt \in Nat /\ None \in Int \X Int
    BY <1>2, StagedAssumption DEF Stages, StagedAssumption, None
  <2>2. epochBase \in 0 .. WrapAt /\ at \in [Slots -> 0 .. Stages]
    BY <1>2, <2>1
  <2> QED
    BY <1>2, <2>1, <2>2 DEF TypeInv
<1>5. PlanInv
  BY <1>1, <1>2, PrimitivesAssumption DEF PlanInv, PrimitivesAssumption
<1>6. RestInv /\ ShareInv /\ HistInv /\ ExcInv
  BY <1>2 DEF RestInv, ShareInv, HistInv, ExcInv
<1>7. EpochInv
  BY <1>2 DEF EpochInv
<1>8. ChainInv /\ PlexInv /\ ScanInv /\ LookInv /\ KeptInv
  BY <1>2, <1>3 DEF ChainInv, PlexInv, ScanInv, LookInv, KeptInv
<1> QED
  BY <1>4, <1>5, <1>6, <1>7, <1>8 DEF IInv, CommonInv

LEMMA StutterInv ==
  ASSUME IInv, UNCHANGED vars
  PROVE  IInv' /\ UNCHANGED Region!vars
<1>1. /\ UNCHANGED <<layout, calls, call, job, epoch, epochBase, outcome>>
      /\ UNCHANGED <<pc, at, item, done, cancelled, exc, stopped, began, ended, failed>>
      /\ UNCHANGED <<claimed, phase, partial, published, cluster, tile, nextTile, acc>>
  BY DEF vars, stagedVars, poolVars, history, chainVars, plexVars, scanVars, lookbackVars
<1>2. CommonInv' /\ UNCHANGED Region!vars
  BY <1>1 DEF IInv, CommonInv, TypeInv, PlanInv, RestInv, ShareInv, HistInv, ExcInv, EpochInv,
     Stages, Runs, Line, Kind, Current, Region!vars
<1>3. Kind' = Kind /\ KeptInv'
  BY <1>1 DEF IInv, KeptInv, Kind
<1>4. ChainInv' = ChainInv
  BY <1>1 DEF ChainInv, ChainPlaces, ChainCourse, BeganStatic, BeganDynamic, Kind, Dynamic, Behind,
     Entered, Over, Passed, Reached, RunsBody, StageNeeds, Line
<1>5. PlexInv' = PlexInv
  BY <1>1 DEF PlexInv, PlexPlaces, PlexBegan, PlexReady, PlexCourse, Kind, InHook, InSlice,
     HookPast, SlicePast, Passed, Entered, Reached, Line
<1>6. ScanInv' = ScanInv
  BY <1>1 DEF ScanInv, ScanPlaces, ScanBegan, ScanMeets, ScanCourse, Kind, InUnit, Rung,
     Hierarchical, IsLeader, Leader, Reached, Line, Thrown, FirstThrown
<1>7. LookInv' = LookInv
  BY <1>1, LookStays
<1> QED
  BY <1>2, <1>3, <1>4, <1>5, <1>6, <1>7 DEF IInv

LEMMA NextInv ==
  ASSUME IInv, [Next]_vars
  PROVE  IInv'
<1>1. CASE AllCallsMade \/ UNCHANGED vars
  BY <1>1, StutterInv DEF AllCallsMade
<1> QED
  BY <1>1, OpenInv, ReturnInv, StopInv, SlotInv DEF Next

LEMMA NextPromise ==
  ASSUME IInv, [Next]_vars
  PROVE  [Region!Next \/ FoldBehindThrow]_(Region!vars)
<1>1. CASE AllCallsMade \/ UNCHANGED vars
  BY <1>1, StutterInv DEF AllCallsMade
<1>2. CASE OpenCall
  BY <1>2, OpenKeeps DEF IInv, Region!Next
<1>3. CASE ReturnCall
  BY <1>3, ReturnPromise DEF Region!Next
<1>4. CASE StopToken
  BY <1>4, StopKeeps DEF IInv, Region!Next
<1>5. ASSUME NEW s \in Slots, Slot(s)
      PROVE  [Region!Next \/ FoldBehindThrow]_(Region!vars)
  BY <1>5, SlotIsStep, SlotPromise, SlipKeeps DEF IInv
<1> QED
  BY <1>1, <1>2, <1>3, <1>4, <1>5 DEF Next

(* The invariant of all calls, in any row and on any pool. *)
THEOREM Invariance == Spec => []IInv
<1>1. IInv /\ [Next]_vars => IInv'
  BY NextInv
<1> QED
  BY <1>1, InitInv, PTL DEF Spec

(* Every line, counter and flag of the pool stays in its range, also when  *)
(* the epochs have started over: no stamp lies ahead of its line's epoch,  *)
(* a slot's stage is one of the call's, and what is captured has thrown.   *)
THEOREM Types == Spec => []TypeOK
<1>1. IInv => TypeOK
  <2> SUFFICES ASSUME IInv PROVE TypeOK
    OBVIOUS
  <2>1. CommonInv /\ KeptInv
    BY DEF IInv
  <2>2. call # NoCall => Plan(call, layout) \in Plans
    BY <2>1, AtHand DEF CommonInv, Current
  <2>3. /\ job \subseteq Slots /\ at \in [Slots -> 0 .. Stages]
        /\ epochBase \in 0 .. WrapAt
        /\ cancelled \in BOOLEAN /\ stopped \in BOOLEAN /\ published \in BOOLEAN
        /\ exc \in failed \union {None}
    BY <2>1 DEF CommonInv, TypeInv, ExcInv, KeptInv
  <2>4. \A l \in Lines : /\ epoch[l] = 0 \/ \E p \in Plans : epoch[l] \in 0 .. WrapAt + Interval(p.of)
                         /\ \A s \in Slots : done[l][s] \in 0 .. epoch[l]
    <3>1. done \in [Lines -> [Slots -> Nat]] /\ epoch \in [Lines -> Nat]
      BY <2>1 DEF CommonInv, TypeInv
    <3>2. \A l \in Lines : \A s \in Slots : done[l][s] <= epoch[l]
      BY <2>1 DEF CommonInv, EpochInv
    <3>3. \A l \in Lines : \A s \in Slots : done[l][s] \in 0 .. epoch[l]
      BY <3>1, <3>2
    <3> QED
      BY <2>1, <3>3 DEF CommonInv, EpochInv
  <2>5. call # NoCall => /\ began \subseteq UnitsOf(Plan(call, layout))
                         /\ ended \subseteq began /\ failed \subseteq began \ ended
    BY <2>1 DEF CommonInv, HistInv, Current
  <2>6. phase \in 0 .. Stages
    <3>1. CASE Kind = "plex"
      BY <3>1, InPlex, <2>1 DEF IInv, PlexInv, Stages
    <3>2. CASE Kind # "plex"
      <4>1. Stages \in Nat
        BY <2>1, AtHand DEF Stages, CommonInv, IsCall
      <4> QED
        BY <2>1, <3>2, <4>1 DEF KeptInv
    <3> QED
      BY <3>1, <3>2
  <2> QED
    BY <2>2, <2>3, <2>4, <2>5, <2>6 DEF TypeOK
<1> QED
  BY <1>1, Invariance, PTL

(* parallelChain, runPlex, parallelScan and inclusiveScan keep their       *)
(* promise: a stage, a phase or a pass begins only when what it builds on  *)
(* is completed, no share of it runs twice, none is left out or left       *)
(* running when the call returns, unless one has thrown or the token is    *)
(* stopped, and the call rethrows exactly what has thrown; with any number *)
(* of slots, stages and tiles, any barriers, any clusters, and however     *)
(* often the epochs start over.  One exception, and no other: on a pool of *)
(* several clusters the folds of a parallelScan go on when a first pass    *)
(* has thrown, behind whatever it has left (README, section 4).            *)
THEOREM ImplementsStages ==
  Spec => Region!Init /\ [][Region!Next \/ FoldBehindThrow]_(Region!vars)
<1>1. Init => Region!Init
  BY DEF Init, StagedInit, Region!Init
<1>2. IInv /\ [Next]_vars => [Region!Next \/ FoldBehindThrow]_(Region!vars)
  BY NextPromise
<1> QED
  BY <1>1, <1>2, Invariance, PTL DEF Spec

(* inclusiveScan corrects a tile by all tiles on its left, in their order, *)
(* and returns all tiles, whatever mixture of totals and prefixes the      *)
(* walks have met, with any number of tiles, slots and clusters.           *)
THEOREM LookbackRight == Spec => []LookbackIsRight
<1>1. IInv => LookbackIsRight
  <2> SUFFICES ASSUME IInv, Kind = "lookback", exc = None
               PROVE  LookbackIsRight
    BY DEF LookbackIsRight
  <2>1. CommonInv /\ LookInv /\ LookValues
    BY DEF IInv, LookInv
  <2>2. \A s \in Slots : At(s, "body") /\ Stage(s) = Correction => acc[s] = FirstNats(at[s])
    BY <2>1 DEF LookValues, InPart, At, Stage
  <2> DEFINE n == call.stages
             last == tile[n - 1]
  <2>3. n \in Nat \ {0}
    BY <2>1, InLook
  <2>4. ASSUME Through
        PROVE  last.prefix \o last.aggregate = FirstNats(n)
    <3>1. n - 1 \in Nat /\ n - 1 \in 0 .. n - 1 /\ n - 1 + 1 = n
      BY <2>3
    <3>2. last.flag = 2
      BY <2>1, <2>4, <3>1, LookDone DEF TileDone
    <3>3. last.aggregate = <<n - 1>> /\ last.prefix = FirstNats(n - 1)
      <4>1. \A t \in 0 .. n - 1 : /\ tile[t].flag >= 1 => tile[t].aggregate = <<t>>
                                  /\ tile[t].flag = 2 => tile[t].prefix = FirstNats(t)
        BY <2>1 DEF LookValues
      <4>2. last.flag >= 1
        BY <3>2
      <4> QED
        BY <3>1, <3>2, <4>1, <4>2
    <3>4. FirstNats(n - 1) = Upto(0, n - 1) /\ <<n - 1>> = Upto(n - 1, n) /\ FirstNats(n) = Upto(0, n)
      <4> DEFINE m == n - 1
      <4>1. m \in Nat /\ n \in Nat /\ 0 \in 0 .. m /\ 0 \in 0 .. n /\ m + 1 = n
        BY <2>3
      <4>2. FirstNats(m) = Upto(0, m) /\ <<m>> = Upto(m, m + 1) /\ FirstNats(n) = Upto(0, n)
        <5> HIDE DEF m, n
        <5> QED
          BY <4>1, UptoIs
      <4> QED
        BY <4>1, <4>2
    <3>5. Upto(0, n - 1) \o Upto(n - 1, n) = Upto(0, n)
      <4>1. n \in Nat /\ n - 1 \in 0 .. n /\ 0 \in 0 .. n - 1
        BY <2>3
      <4> QED
        BY <4>1, UptoGlues
    <3> QED
      BY <3>3, <3>4, <3>5
  <2> QED
    BY <2>2, <2>4 DEF LookbackIsRight
<1> QED
  BY <1>1, Invariance, PTL
=============================================================================
