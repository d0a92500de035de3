------------------------------- MODULE Parking -------------------------------
(***************************************************************************)
(* Sleeping and waking: how an idle worker of citor::ThreadPool spins,     *)
(* looks once more and parks on the shared futex word, and how it is woken *)
(* in time, by the two wakes of a dispatch and the chain they set off, by  *)
(* the drain of collapsed workers, by a low-latency scope or by the        *)
(* destructor.                                                             *)
(*                                                                         *)
(* Sources: detail/worker_loop.h (workerMainLoop, after the mailbox        *)
(* compare), detail/futex_park.h, thread_pool.h (LowLatencyGuard,          *)
(* drainColdStampedAcks, dispatchOneStaticLocked and the wake of           *)
(* dispatchOneStaticLockedBody, shutdownAndJoin).                          *)
(*                                                                         *)
(* What a dispatch carries is module Dispatch's, and how the gate is taken *)
(* DispatchGate's.  Here a worker serves a mailbox word in one go, the     *)
(* gate is free or held (also by the owner of a scope, which skips it in   *)
(* the code and has the pool to itself), and the flags that matter are who *)
(* is done and who still owes an acknowledgement.                          *)
(*                                                                         *)
(* The kernel's queue is that of the Linux build, first parked first       *)
(* woken; the other builds wake everybody.                                 *)
(***************************************************************************)
EXTENDS Integers, SequencesExt

CONSTANTS Workers,     (* the background ranks 1 .. participants - 1     *)
          Threads,     (* the producers                                  *)
          Owner,       (* the one that opens scopes and ends the pool    *)
          KindsOf,     (* the kinds of dispatch each of them makes       *)
          Nobody,
          MaxCalls,    (* bound on the dispatches                        *)
          MaxScopes,   (* bound on the low-latency scopes                *)
          Far          (* bound on the bumps of the futex word between   *)
                       (* the load and the store of another one          *)

(* parallelFor's dispatches may be collapsed, the reducers' may not; the   *)
(* other primitives take a lease first and do not probe.                   *)
Kinds == {"for", "reduce", "lease"}

ParkingAssumption ==
  /\ Workers \subseteq Nat \ {0} /\ Workers # {} /\ IsFiniteSet(Workers)
  /\ Owner \in Threads /\ Nobody \notin Threads
  /\ KindsOf \in [Threads -> SUBSET Kinds]
  /\ MaxCalls \in Nat
  /\ MaxScopes \in Nat
  /\ Far \in Nat

ASSUME ParkingAssumption

VARIABLES
  generation,  (* the dispatches so far: m_control.generation             *)
  mailbox,     (* WorkerState::mailbox: phase and shutdown bit            *)
  owed,        (* m_coldStampedMask                                       *)
  token,       (* parkToken of the workers about to park                  *)
  asleep,      (* the kernel's queue on the futex word                    *)
  depth,       (* m_control.hotSpinDepth                                  *)
  epoch,       (* m_control.hotSpinEpoch                                  *)
  hotEpoch,    (* WorkerState::hotSpinEpoch                               *)
  gate,        (* who dispatches                                          *)
  pc,          (* where each producer is                                  *)
  step,        (* how far it is with a wake: "store", "wake" or "none"    *)
  next,        (* what it will store in the futex word                    *)
  lowLatency,  (* lowLatencyActive                                        *)
  kind,        (* the kind of the call in progress                        *)
  slots,       (* the slots a loop of the producer has left               *)
  wpc,         (* where each worker is                                    *)
  obs,         (* the phase it is serving                                 *)
  seen         (* the phase it served last, and has stamped               *)

scopeVars == <<depth, epoch>>
prodVars == <<gate, pc, step, next, lowLatency, kind, slots>>
workVars == <<wpc, obs, seen, hotEpoch>>
vars == <<generation, mailbox, owed, token, asleep, scopeVars, prodVars, workVars>>

(* futexWord and what is to be compared with it: all that matters is how   *)
(* far a token, or the value a producer is about to store, lies from the   *)
(* word.  A token that no store to come can reach is Stale.                *)
Stale == -Far - 1

Init ==
  /\ generation = 0
  /\ mailbox = [w \in Workers |-> [gen |-> 0, down |-> FALSE]]
  /\ owed = {}
  /\ token = [w \in Workers |-> Stale] /\ asleep = <<>>
  /\ depth = 0 /\ epoch = 0
  /\ hotEpoch = [w \in Workers |-> 0]
  /\ gate = Nobody
  /\ pc = [t \in Threads |-> "idle"] /\ step = [t \in Threads |-> "none"]
  /\ next = [t \in Threads |-> 0] /\ lowLatency = [t \in Threads |-> FALSE]
  /\ kind = [t \in Threads |-> "none"] /\ slots = [t \in Threads |-> {}]
  /\ wpc = [w \in Workers |-> "load"]
  /\ obs = [w \in Workers |-> 0]
  /\ seen = [w \in Workers |-> 0]

First(S) == CHOOSE s \in S : \A t \in S : s <= t
Done(w) == seen[w] = mailbox[w].gen     (* kDoneBit, by the worker itself *)
InScope == depth > 0

At(t, here) == pc[t] = here /\ step[t] = "none"
Go(t, to) == pc' = [pc EXCEPT ![t] = to]
SetSlots(t, S) == slots' = [slots EXCEPT ![t] = S]

-----------------------------------------------------------------------------
(***************************************************************************)
(* A wake: load the futex word, store the next value, ask the kernel.  The *)
(* load and the store are two steps of their own, and the entry drain and  *)
(* the constructor of a scope make them outside the gate.                  *)
(***************************************************************************)
LoadWord(t) ==
  /\ step' = [step EXCEPT ![t] = "store"]
  /\ next' = [next EXCEPT ![t] = 1]

StoreWord(t) ==
  LET d == next[t]
      others == {u \in Threads \ {t} : step[u] = "store"}
      Shifted(x) == IF x < d /\ \A u \in others : x < next[u] THEN Stale ELSE x - d
  IN  /\ step[t] = "store"
      /\ \A u \in others : next[u] - d >= -Far
      /\ next' = [u \in Threads |-> IF u \in others THEN next[u] - d ELSE 0]
      /\ token' = [w \in Workers |-> IF token[w] = Stale THEN Stale ELSE Shifted(token[w])]
      /\ step' = [step EXCEPT ![t] = "wake"]
      /\ UNCHANGED <<generation, mailbox, owed, asleep, scopeVars, gate, pc,
                     lowLatency, kind, slots, workVars>>

(* futexWakePrivate(n): the first n of the queue go on. *)
WakeUp(n) ==
  LET k == Min({n, Len(asleep)})
      woken == ToSet(SubSeq(asleep, 1, k))
  IN  /\ asleep' = SubSeq(asleep, k + 1, Len(asleep))
      /\ wpc' = [w \in Workers |-> IF w \in woken THEN "woken" ELSE wpc[w]]

(* The shutdown and a scope wake everybody (INT_MAX), the others two. *)
Everybody == Len(asleep)
OneOnly(here) == IF here \in {"drain", "locked", "probe"} THEN 2 ELSE 1
                                \* mutant: the shutdown and scopes wake one
WokenFrom(here) == IF here \in {"drain", "locked", "probe"} THEN 2 ELSE Everybody

AfterWake(here) == CASE here = "probe"    -> "join"
                     [] here = "scopeWake" -> "scopeWait"
                     [] here = "stopWake" -> "stopJoin"
                     [] OTHER             -> here     \* the drain looks again

Wake(t) ==
  /\ step[t] = "wake"
  /\ WakeUp(WokenFrom(pc[t]))
  /\ step' = [step EXCEPT ![t] = "none"]
  /\ Go(t, AfterWake(pc[t]))
  /\ UNCHANGED <<generation, mailbox, owed, token, scopeVars, gate, next,
                 lowLatency, kind, slots, obs, seen, hotEpoch>>

-----------------------------------------------------------------------------
(***************************************************************************)
(* The calls of a producer.                                                *)
(***************************************************************************)
Ending == pc[Owner] \in {"stop", "stopWake", "stopJoin", "destroyed"}
BeforeDispatch ==
  {t \in Threads : pc[t] \in {"drain", "clear", "clearSome", "lease", "locked"}}

(* parallelFor drains before it writes its descriptor, outside the gate. *)
Begin(t, k) ==
  /\ At(t, "idle") /\ ~Ending
  /\ k \in KindsOf[t]
  /\ generation + Cardinality(BeforeDispatch) < MaxCalls
  /\ Go(t, IF k = "for" THEN "drain" ELSE "lease")
  /\ kind' = [kind EXCEPT ![t] = k]
  /\ lowLatency' = [lowLatency EXCEPT ![t] = InScope]
  /\ UNCHANGED <<generation, mailbox, owed, token, asleep, scopeVars, gate,
                 step, next, slots, workVars>>

(* Who has the gate, and whether it wakes.  The primitives that dispatch   *)
(* under a lease of their own look at the depth, whoever's the scope is.   *)
WakesNot(t, k) == InScope /\ (t = Owner \/ k = "lease")

Lease(t) ==
  /\ At(t, "lease")
  /\ gate = Nobody
  /\ gate' = t
  /\ lowLatency' = [lowLatency EXCEPT ![t] = WakesNot(t, kind[t])]
  /\ Go(t, "locked")
  /\ UNCHANGED <<generation, mailbox, owed, token, asleep, scopeVars, step,
                 next, kind, slots, workVars>>

(* Wait for the collapsed workers, waking two at a time because the one    *)
(* that is waited for may be parked.  At the entry of parallelFor nothing  *)
(* keeps others from publishing between the look and the clearing of what  *)
(* it has found; a worker whose answer comes during the look is found by   *)
(* the next one at the latest.                                             *)
FoundAll == owed                        \* mutant: clears what it waits for, too
Found == {w \in owed : Done(w)}

EntryLook(t) ==
  /\ At(t, "drain")
  /\ SetSlots(t, Found)
  /\ Go(t, IF \A w \in owed : Done(w) THEN "clear" ELSE "clearSome")
  /\ UNCHANGED <<generation, mailbox, owed, token, asleep, scopeVars, gate,
                 step, next, lowLatency, kind, workVars>>

EntryClear(t) == owed' = owed \ slots[t] /\ SetSlots(t, {})

EntryDrained(t) ==
  /\ At(t, "clear")
  /\ EntryClear(t)
  /\ Go(t, "lease")
  /\ UNCHANGED <<generation, mailbox, token, asleep, scopeVars, gate, step,
                 next, lowLatency, kind, workVars>>

EntryPending(t) ==
  /\ At(t, "clearSome")
  /\ EntryClear(t)
  /\ Go(t, "drain")
  /\ IF lowLatency[t] THEN UNCHANGED <<step, next>> ELSE LoadWord(t)
  /\ UNCHANGED <<generation, mailbox, token, asleep, scopeVars, gate,
                 lowLatency, kind, workVars>>

(* Under the gate nobody publishes between the two. *)
Drained(t) ==
  /\ At(t, "locked")
  /\ owed' = owed \ Found
  /\ owed' = {}
  /\ Go(t, "publish") /\ SetSlots(t, Workers)
  /\ generation' = generation + 1
  /\ UNCHANGED <<mailbox, token, asleep, scopeVars, gate, step, next,
                 lowLatency, kind, workVars>>

DrainPending(t) ==
  /\ At(t, "locked")
  /\ owed' = owed \ Found
  /\ owed' # {}
  /\ ~lowLatency[t]
  /\ LoadWord(t)
  /\ UNCHANGED <<generation, mailbox, token, asleep, scopeVars, gate, pc,
                 lowLatency, kind, slots, workVars>>

Publish(t) ==
  /\ At(t, "publish")
  /\ LET w == First(slots[t])
     IN  /\ mailbox' = [mailbox EXCEPT ![w].gen = generation]
         /\ IF slots[t] = {w} THEN /\ Go(t, IF lowLatency[t] THEN "join" ELSE "probe")
                                   /\ SetSlots(t, Workers)
                              ELSE SetSlots(t, slots[t] \ {w}) /\ UNCHANGED pc
  /\ UNCHANGED <<generation, owed, token, asleep, scopeVars, gate, step, next,
                 lowLatency, kind, workVars>>

(* The pre-wake completion probe: with every worker done nobody is woken.  *)
(* A missed probe may have looked before the last worker was done.         *)
AllDone == \A w \in Workers : Done(w)

ProbeHit(t) ==
  /\ At(t, "probe")
  /\ kind[t] # "lease" /\ AllDone
  /\ Go(t, "join")
  /\ UNCHANGED <<generation, mailbox, owed, token, asleep, scopeVars, gate,
                 step, next, lowLatency, kind, slots, workVars>>

ProbeMissed(t) ==
  /\ At(t, "probe")
  /\ LoadWord(t)
  /\ UNCHANGED <<generation, mailbox, owed, token, asleep, scopeVars, gate, pc,
                 lowLatency, kind, slots, workVars>>

NextSlot(t) ==
  LET left == slots[t] \ {First(slots[t])}
  IN  /\ SetSlots(t, left)
      /\ IF left = {} THEN /\ Go(t, "idle") /\ gate' = Nobody
                           /\ kind' = [kind EXCEPT ![t] = "none"]
                           /\ lowLatency' = [lowLatency EXCEPT ![t] = FALSE]
                      ELSE UNCHANGED <<pc, gate, kind, lowLatency>>

Join(t) ==
  /\ At(t, "join")
  /\ Done(First(slots[t]))
  /\ NextSlot(t)
  /\ UNCHANGED <<generation, mailbox, owed, token, asleep, scopeVars, step,
                 next, workVars>>

(* The producer does the work of a worker that has not started on it. *)
SkipCollapse(t) == lowLatency[t] /\ Cardinality(Workers) > 1
CollapsesAny(t) == ~SkipCollapse(t)     \* mutant: every call opts in
Collapses(t) == kind[t] = "for" /\ ~SkipCollapse(t)

Collapse(t) ==
  /\ At(t, "join")
  /\ Collapses(t)
  /\ LET w == First(slots[t])
     IN  /\ ~Done(w) /\ wpc[w] # "serve"
         /\ owed' = owed \union {w}
  /\ NextSlot(t)
  /\ UNCHANGED <<generation, mailbox, token, asleep, scopeVars, step, next, workVars>>

-----------------------------------------------------------------------------
(***************************************************************************)
(* LowLatencyGuard.  The constructor announces a new epoch, raises the     *)
(* depth, wakes everybody and waits until every worker has acknowledged    *)
(* the epoch; while it waits it wakes again now and then.                  *)
(***************************************************************************)
ScopeEpoch ==
  /\ At(Owner, "idle")
  /\ ~InScope
  /\ epoch < MaxScopes
  /\ epoch' = epoch + 1
  /\ Go(Owner, "scopeDepth")
  /\ UNCHANGED <<generation, mailbox, owed, token, asleep, depth, gate, step,
                 next, lowLatency, kind, slots, workVars>>

ScopeDepth ==
  /\ At(Owner, "scopeDepth")
  /\ depth' = depth + 1
  /\ Go(Owner, "scopeWake") /\ SetSlots(Owner, Workers)
  /\ UNCHANGED <<generation, mailbox, owed, token, asleep, epoch, gate, step,
                 next, lowLatency, kind, workVars>>

ScopeWake ==
  /\ At(Owner, "scopeWake")
  /\ LoadWord(Owner)
  /\ UNCHANGED <<generation, mailbox, owed, token, asleep, scopeVars, gate, pc,
                 lowLatency, kind, slots, workVars>>

AckedBefore(w) == hotEpoch[w] > epoch    \* mutant: > in place of >=
NotAwaited(w) == TRUE                    \* mutant: the wait is missing
Acked(w) == hotEpoch[w] >= epoch

ScopeAcked ==
  /\ At(Owner, "scopeWait")
  /\ Acked(First(slots[Owner]))
  /\ SetSlots(Owner, slots[Owner] \ {First(slots[Owner])})
  /\ IF slots[Owner] = {First(slots[Owner])} THEN Go(Owner, "idle") ELSE UNCHANGED pc
  /\ UNCHANGED <<generation, mailbox, owed, token, asleep, scopeVars, gate,
                 step, next, lowLatency, kind, workVars>>

ScopeRetry ==
  /\ At(Owner, "scopeWait")
  /\ ~Acked(First(slots[Owner]))
  /\ Go(Owner, "scopeWake")
  /\ UNCHANGED <<generation, mailbox, owed, token, asleep, scopeVars, gate,
                 step, next, lowLatency, kind, slots, workVars>>

NullGuard == TRUE               \* mutant: a guard of no pool ends a scope too
Engaged == InScope

ScopeClose ==
  /\ At(Owner, "idle")
  /\ Engaged
  /\ depth' = depth - 1
  /\ UNCHANGED <<generation, mailbox, owed, token, asleep, epoch, prodVars, workVars>>

-----------------------------------------------------------------------------
(***************************************************************************)
(* shutdownAndJoin, once the calls and the scopes are over.                *)
(***************************************************************************)
Shutdown ==
  /\ \A t \in Threads : At(t, "idle")
  /\ ~InScope
  /\ Go(Owner, "stop") /\ SetSlots(Owner, Workers)
  /\ UNCHANGED <<generation, mailbox, owed, token, asleep, scopeVars, gate,
                 step, next, lowLatency, kind, workVars>>

ShutdownStore ==
  /\ At(Owner, "stop")
  /\ LET w == First(slots[Owner])
     IN  /\ mailbox' = [mailbox EXCEPT ![w] = [gen |-> @.gen + 1, down |-> TRUE]]
         /\ SetSlots(Owner, slots[Owner] \ {w})
         /\ IF slots[Owner] = {w} THEN Go(Owner, "stopWake") ELSE UNCHANGED pc
  /\ UNCHANGED <<generation, owed, token, asleep, scopeVars, gate, step, next,
                 lowLatency, kind, workVars>>

ShutdownWake ==
  /\ At(Owner, "stopWake")
  /\ LoadWord(Owner)
  /\ UNCHANGED <<generation, mailbox, owed, token, asleep, scopeVars, gate, pc,
                 lowLatency, kind, slots, workVars>>

ShutdownJoin ==
  /\ At(Owner, "stopJoin")
  /\ \A w \in Workers : wpc[w] = "exited"
  /\ Go(Owner, "destroyed")
  /\ UNCHANGED <<generation, mailbox, owed, token, asleep, scopeVars, gate,
                 step, next, lowLatency, kind, slots, workVars>>

-----------------------------------------------------------------------------
(***************************************************************************)
(* The worker, between two dispatches.                                     *)
(***************************************************************************)
WAt(w, here) == wpc[w] = here
WGo(w, to) == wpc' = [wpc EXCEPT ![w] = to]
New(w) == mailbox[w].gen # seen[w]
poolVars == <<generation, mailbox, owed, scopeVars, prodVars>>

(* A mailbox word loaded by w: a dispatch to serve, or the end. *)
Take(w) == /\ obs' = [obs EXCEPT ![w] = mailbox[w].gen]
           /\ WGo(w, IF mailbox[w].down THEN "exited" ELSE "serve")

(* The load at the end of a turn and the polls of the spin. *)
Observe(w) ==
  /\ wpc[w] \in {"load", "poll"}
  /\ New(w)
  /\ Take(w)
  /\ UNCHANGED <<poolVars, token, asleep, seen, hotEpoch>>

Serve(w) ==
  /\ WAt(w, "serve")
  /\ seen' = [seen EXCEPT ![w] = obs[w]]
  /\ obs' = [obs EXCEPT ![w] = 0]
  /\ WGo(w, "load")
  /\ UNCHANGED <<poolVars, token, asleep, hotEpoch>>

(* Nothing new; lowLatencyActive: in a scope, acknowledge its epoch. *)
Look(w) ==
  /\ WAt(w, "load")
  /\ ~New(w)
  /\ WGo(w, IF InScope THEN "ack" ELSE "poll")
  /\ UNCHANGED <<poolVars, token, asleep, obs, seen, hotEpoch>>

Ack(w) ==
  /\ wpc[w] \in {"ack", "ackAgain"}
  /\ hotEpoch' = [hotEpoch EXCEPT ![w] = epoch]
  /\ WGo(w, IF WAt(w, "ack") THEN "poll" ELSE "load")
  /\ UNCHANGED <<poolVars, token, asleep, obs, seen>>

(* The spin's budget is used up: look for a scope again. *)
GiveUp(w) ==
  /\ WAt(w, "poll")
  /\ WGo(w, IF InScope THEN "ackAgain" ELSE "token")
  /\ UNCHANGED <<poolVars, token, asleep, obs, seen, hotEpoch>>

(* The parking token, the mailbox once more, and the system call, which    *)
(* returns at once if the token is out of date.                            *)
Token(w) ==
  /\ WAt(w, "token")
  /\ token' = [token EXCEPT ![w] = 0]
  /\ WGo(w, "recheck")
  /\ UNCHANGED <<poolVars, asleep, obs, seen, hotEpoch>>

Forget(w) == token' = [token EXCEPT ![w] = Stale]

NotRechecked(w) == FALSE        \* mutant: the check after the token is missing
FoundNew(w) == New(w)

Recheck(w) ==
  /\ WAt(w, "recheck")
  /\ IF FoundNew(w) THEN Take(w) /\ Forget(w)
                    ELSE WGo(w, "park") /\ UNCHANGED <<obs, token>>
  /\ UNCHANGED <<poolVars, asleep, seen, hotEpoch>>

Park(w) ==
  /\ WAt(w, "park")
  /\ IF token[w] = 0
     THEN asleep' = Append(asleep, w) /\ WGo(w, "asleep")
     ELSE WGo(w, "woken") /\ UNCHANGED asleep
  /\ Forget(w)
  /\ UNCHANGED <<poolVars, obs, seen, hotEpoch>>

(* The wait returned, woken or not: with a dispatch in the mailbox the     *)
(* worker wakes two more before it serves.                                 *)
Chains(w) == ~mailbox[w].down /\ Cardinality(Workers) > 1

Woken(w) ==
  /\ WAt(w, "woken")
  /\ IF New(w) THEN /\ obs' = [obs EXCEPT ![w] = mailbox[w].gen]
                    /\ WGo(w, CASE Chains(w)       -> "chain"
                                [] mailbox[w].down -> "exited"
                                [] OTHER           -> "serve")
               ELSE UNCHANGED obs /\ WGo(w, "load")
  /\ UNCHANGED <<poolVars, token, asleep, seen, hotEpoch>>

ChainWake(w) ==
  /\ WAt(w, "chain")
  /\ LET k == Min({2, Len(asleep)})
     IN  /\ asleep' = SubSeq(asleep, k + 1, Len(asleep))
         /\ wpc' = [v \in Workers |->
                      CASE v = w -> "serve"
                        [] v \in ToSet(SubSeq(asleep, 1, k)) -> "woken"
                        [] OTHER -> wpc[v]]
  /\ UNCHANGED <<poolVars, token, obs, seen, hotEpoch>>

(* A signal interrupts the wait. *)
Interrupted(w) ==
  /\ WAt(w, "asleep")
  /\ \E i \in DOMAIN asleep : asleep[i] = w /\ asleep' = RemoveAt(asleep, i)
  /\ WGo(w, "woken")
  /\ UNCHANGED <<poolVars, token, obs, seen, hotEpoch>>

-----------------------------------------------------------------------------
InCall(t) == \/ EntryLook(t) \/ EntryDrained(t) \/ EntryPending(t)
             \/ Lease(t) \/ Drained(t) \/ DrainPending(t)
             \/ Publish(t) \/ ProbeHit(t) \/ ProbeMissed(t) \/ Join(t) \/ Collapse(t)
Opening == ScopeDepth \/ ScopeWake \/ ScopeAcked \/ ScopeRetry
Stopping == ShutdownStore \/ ShutdownWake \/ ShutdownJoin
Producer(t) == \/ InCall(t) \/ StoreWord(t) \/ Wake(t)
               \/ t = Owner /\ (Opening \/ Stopping)
Worker(w) == \/ Observe(w) \/ Serve(w) \/ Look(w) \/ Ack(w)
             \/ GiveUp(w) \/ Token(w) \/ Recheck(w) \/ Park(w) \/ Woken(w)
             \/ ChainWake(w)

(* The one legitimate end: the pool is gone. *)
Destroyed == pc[Owner] = "destroyed" /\ UNCHANGED vars

Next == \/ \E t \in Threads : Producer(t) \/ \E k \in Kinds : Begin(t, k)
        \/ ScopeEpoch \/ ScopeClose \/ Shutdown
        \/ \E w \in Workers : Worker(w) \/ Interrupted(w)
        \/ Destroyed

(* A thread that can run does; no signal has to come, nobody has to call;  *)
(* the gate goes to everybody who waits for it (module DispatchGate).      *)
Fairness == /\ \A t \in Threads : WF_vars(Producer(t)) /\ SF_vars(Lease(t))
            /\ \A w \in Workers : WF_vars(Worker(w))

Spec == Init /\ [][Next]_vars
FairSpec == Spec /\ Fairness

-----------------------------------------------------------------------------
(***************************************************************************)
(* Properties.                                                             *)
(***************************************************************************)
PCs == {"idle", "drain", "clear", "clearSome", "lease", "locked", "publish",
        "probe", "join", "scopeDepth", "scopeWake", "scopeWait", "stop",
        "stopWake", "stopJoin", "destroyed"}
WPCs == {"load", "serve", "ack", "poll", "ackAgain", "token", "recheck",
         "park", "asleep", "woken", "chain", "exited"}

(* The types, and that the kernel's queue holds each sleeping worker once. *)
TypeOK ==
  /\ generation \in 0..MaxCalls
  /\ mailbox \in [Workers -> [gen : 0..MaxCalls + 1, down : BOOLEAN]]
  /\ owed \subseteq Workers
  /\ token \in [Workers -> {x \in Int : x >= Stale}]
  /\ next \in [Threads -> {x \in Int : x >= -Far}]
  /\ asleep \in Seq(Workers) /\ IsInjective(asleep)
  /\ ToSet(asleep) = {w \in Workers : wpc[w] = "asleep"}
  /\ depth \in 0..1 /\ epoch \in 0..MaxScopes
  /\ hotEpoch \in [Workers -> 0..MaxScopes]
  /\ gate \in Threads \union {Nobody}
  /\ pc \in [Threads -> PCs] /\ step \in [Threads -> {"none", "store", "wake"}]
  /\ lowLatency \in [Threads -> BOOLEAN]
  /\ kind \in [Threads -> Kinds \union {"none"}]
  /\ slots \in [Threads -> SUBSET Workers]
  /\ wpc \in [Workers -> WPCs]
  /\ obs \in [Workers -> 0..MaxCalls + 1]
  /\ seen \in [Workers -> 0..MaxCalls]

(* While nobody is between publishing and joining, every mailbox has the   *)
(* last dispatch, and a worker that has not served it is one a producer    *)
(* has stood in for and owes a drain: the early end of the wake, the probe *)
(* before it and a worker that oversleeps leave nobody out unnoticed.      *)
LeftBehindIsOwed ==
  (\A t \in Threads : pc[t] \notin {"publish", "probe", "join"}) /\ ~Ending =>
    \A w \in Workers : mailbox[w].gen = generation /\ (New(w) => w \in owed)

(* A reduction, a fork-join, a chain, a scan or a plex has on its caller's  *)
(* stack what its workers use: it returns only when every worker has got   *)
(* the dispatch and answered it, whichever was late, asleep, woken by      *)
(* others or collapsed by the call before.                                 *)
NobodyInTheFrame ==
  [][\A t \in Threads : kind[t] \in {"reduce", "lease"} /\ kind'[t] = "none" =>
       \A w \in Workers : mailbox[w].gen = generation /\ ~New(w)]_vars

(* In an open low-latency scope no worker sleeps or is about to: dispatches *)
(* do not wake.                                                            *)
ScopeKeepsAwake ==
  InScope /\ pc[Owner] \notin {"scopeWake", "scopeWait"} =>
    \A w \in Workers : wpc[w] # "asleep" /\ token[w] # 0

(* A dispatch returns, whoever slept or was about to when it was published *)
(* and however slow the producer is between publishing and waking.         *)
CallsReturn == \A t \in Threads : kind[t] # "none" ~> kind[t] = "none"

(* The constructor of a scope returns. *)
ScopeOpens == pc[Owner] = "scopeDepth" ~> pc[Owner] = "idle"

(* The destructor joins every worker. *)
ShutdownCompletes == pc[Owner] = "stop" ~> pc[Owner] = "destroyed"
=============================================================================
