------------------------------ MODULE Lifetime ------------------------------
(***************************************************************************)
(* The life of a pool: one thread makes it, several share it, submit       *)
(* detached tasks to it, wait for coroutines that run on it and drop it,   *)
(* the last one perhaps inside a task; and the thread that has made it has *)
(* another pool at the same time.                                          *)
(*                                                                         *)
(* Sources: thread_pool.h (initWorkers, autoPinProducerOnce,               *)
(* submitDetached, ~ThreadPool), detail/coherence_probe.h, coro.h.         *)
(***************************************************************************)
EXTENDS Detached, SyncWait, Construction, AutoPin

CONSTANTS PoolDriver,    (* the driver of the pool; the others are of pools *)
                         (* that stay                                       *)
          Maker,         (* the thread that makes the pool                  *)
          Roles,         (* which callers and tasks submit, and how many    *)
                         (* tasks, which callers wait, which call           *)
                         (* primitives, and whether the maker has another   *)
                         (* pool                                            *)
          MaxOthers      (* bound on the pools it has one after the other   *)

ThisPool == "p"
OtherPool == "q"

(* A caller may wait; whoever holds the pool, a task too, may destroy it.  *)
LifetimeAssumption ==
  /\ PoolDriver \in Drivers /\ Maker \in Callers /\ Waiters = Callers
  /\ Threads \subseteq PinThreads /\ {ThisPool, OtherPool} \subseteq Pools
  /\ MaxOthers \in Nat

ASSUME LifetimeAssumption

VARIABLES role,
          other,         (* the other pool: "none", "alive"                 *)
          others         (* how many there have been                        *)

roleVars == <<role, other, others>>
vars == <<roleVars, detachedVars, waitVars, constructionVars, pinVars>>

Init == /\ role \in Roles /\ other = "none" /\ others = 0
        /\ DetachedInit /\ SyncWaitInit(role.wait)
        /\ ConstructionInit /\ AutoPinInit

OnDetached(A) == A /\ UNCHANGED <<roleVars, waitVars, constructionVars, pinVars>>
OnWaits(A) == A /\ UNCHANGED <<roleVars, detachedVars, constructionVars, pinVars>>
OnConstruction(A) == A /\ UNCHANGED <<roleVars, detachedVars, waitVars, pinVars>>
OnPins(A) == A /\ UNCHANGED <<role, detachedVars, waitVars, constructionVars>>

-----------------------------------------------------------------------------
(* The constructor, on the thread of the maker, which it pins. *)
PinMaker ==
  /\ PinProducer /\ AutoPin(Maker, ThisPool)
  /\ UNCHANGED <<roleVars, detachedVars, waitVars>>

MakePool ==
  \/ OnConstruction(Constructor \/ OfProbe(Probe))
  \/ OnConstruction(\E p \in DOMAIN ping : OfProbe(PairThread(p)))
  \/ PinMaker
HelperStep(p) == OnConstruction(OfProbe(HelperThread(p)))
WorkerStep(w) == OnConstruction(WorkerThread(w))

(* A thread does one thing at a time, and needs its reference for it. *)
Made == ctor = "made"
Free(h) == submit[h].at = "no" /\ wpc[h] = "out"
MaySubmitMore(t) == t \in role.submit /\ NextTask <= role.tasks

CallerStarts(h) ==
  /\ Made /\ h \in refs /\ Free(h)
  /\ \/ MaySubmitMore(h) /\ OnDetached(Submit(h))
     \/ OnWaits(CallSyncWait(h))

CallerDrops(h) ==
  /\ Made /\ Free(h) /\ waits[h] = MaxWaits /\ bound[h] = "none"
  /\ OnDetached(DropByCaller(h))

(* Its calls of primitives, within a guard or not, and the maker's other   *)
(* pool, which is made and destroyed outside guards.                       *)
MayCall(h) == Made /\ h \in role.call /\ h \in refs /\ Free(h)
CallPool(h) == MayCall(h) /\ OnPins(EnsurePinned(h, ThisPool)) /\ UNCHANGED <<other, others>>
BindSlot(h) == MayCall(h) /\ OnPins(Bind(h)) /\ UNCHANGED <<other, others>>
EndBind(h) == OnPins(Unbind(h)) /\ UNCHANGED <<other, others>>

MakerFree == /\ role.other /\ Free(Maker) /\ destroyer.who # Maker
             /\ \/ ctor \in {"made", "failed"}
                \/ ctor = "spawn" /\ slot = 1

MakeOther ==
  /\ MakerFree /\ bound[Maker] = "none" /\ other = "none" /\ others < MaxOthers
  /\ other' = "alive" /\ others' = others + 1
  /\ OnPins(AutoPin(Maker, OtherPool))

CallOther ==
  /\ MakerFree /\ other = "alive"
  /\ OnPins(EnsurePinned(Maker, OtherPool))
  /\ UNCHANGED <<other, others>>

EndOther ==
  /\ MakerFree /\ bound[Maker] = "none" /\ other = "alive"
  /\ other' = "none" /\ UNCHANGED others
  /\ OnPins(Restore(Maker, OtherPool))

(* The thread that destroys the pool does nothing else. *)
DestroyPool ==
  \/ OnDetached(Draining)
  \/ /\ Destroyed /\ EndWorkers /\ Restore(destroyer.who, ThisPool)
     /\ UNCHANGED <<roleVars, waitVars>>

TaskStep(t) == OnDetached(TaskThread(t) \/ Submission(t))
TaskSubmits(t) == MaySubmitMore(t) /\ OnDetached(Submit(t))
CallerStep(h) == OnDetached(Submission(h)) \/ OnWaits(Waiter(h))
DriverStep(d) == OnWaits(Driver(d))

Over == \/ pool = "gone" /\ \A d \in Drivers : dpc[d] = "ended"
        \/ ctor = "failed"
AllOver == Over /\ UNCHANGED vars

Next ==
  \/ MakePool
  \/ \E p \in DOMAIN ping : HelperStep(p)
  \/ \E w \in Workers : WorkerStep(w)
  \/ \E h \in Callers : \/ CallerStarts(h) \/ CallerDrops(h) \/ CallerStep(h)
                        \/ CallPool(h) \/ BindSlot(h) \/ EndBind(h)
  \/ MakeOther \/ CallOther \/ EndOther
  \/ \E t \in Tasks : TaskStep(t) \/ TaskSubmits(t) \/ OnDetached(StopTask(t))
  \/ \E d \in Drivers : DriverStep(d)
  \/ DestroyPool
  \/ OnWaits(EndProcess)
  \/ AllOver

(* Threads go on running and bodies and coroutines end; nobody has to      *)
(* submit, to wait, to call, to drop the pool or to stop a token.          *)
Fairness ==
  /\ WF_vars(MakePool) /\ WF_vars(DestroyPool)
  /\ WF_vars(\E p \in DOMAIN ping : HelperStep(p))
  /\ WF_vars(\E w \in Workers : WorkerStep(w))
  /\ \A h \in Callers : WF_vars(CallerStep(h))
  /\ \A t \in Tasks : WF_vars(TaskStep(t))
  /\ \A d \in Drivers : WF_vars(DriverStep(d))

Spec == Init /\ [][Next]_vars /\ Fairness

-----------------------------------------------------------------------------
(* A constructor either returns a pool all of whose workers have arrived   *)
(* and all of whose pairs of CPUs are measured; or it throws, has joined   *)
(* the threads it had created and no other, and has left none behind, also *)
(* one that had not yet looked at its mailbox (initWorkers,                *)
(* shutdownAndJoin).                                                       *)
WorkersThereOrUndone ==
  /\ Made /\ pool # "gone" => Ready = Workers
  /\ ctor = "join" => \A w \in handles : workers[w] # "none"
  /\ ctor = "failed" => Running = {}

ConstructedOrUndone ==
  /\ WorkersThereOrUndone
  /\ Made /\ pool # "gone" => matrix = EveryPair

(* When no pool is left a thread has the affinity it came with, whichever  *)
(* of two pools it had first and lost first, on whatever thread they ended *)
(* (AutoPinState and the pool's mirror of it).                             *)
MaskReturned ==
  (pool = "gone" \/ ctor \in {"spawn", "shutdown", "join", "failed"}) /\ other = "none" =>
    \A t \in PinThreads : bound[t] = "none" /\ mask[t] = "wide"

(* Nobody is in the pool when it is gone: no detached task before it has   *)
(* left the count, and no submission; and no reference is left, so only    *)
(* one thread ever destroys it.                                            *)
NoUseAfterDestruction ==
  pool = "gone" => TasksInPool = {} /\ SubmittersInPool = {} /\ refs = {}

(* The coroutine outlives every resume of it: when its frame is destroyed  *)
(* no driver is still inside, about to enter, or has it in its queue.  And *)
(* the pool outlives the body that a coroutine awaits on it.               *)
FrameOutlivesResume ==
  /\ \A w \in Waiters : wpc[w] = "out" =>
       \A d \in Drivers : /\ dpc[d] \in {"body", "coroutine", "unwind"} => serves[d] # w
                          /\ \A i \in DOMAIN queue[d] : queue[d][i] # w
  /\ dpc[PoolDriver] = "body" => pool # "gone"

(* The constructor returns or throws: every worker reports, the helpers of *)
(* the probe see their stop, and what has been created can be joined.  The *)
(* destructor returns, also on the thread of a detached task, and also     *)
(* when the last count goes between its look and its sleep.                *)
BothEndsReturn == /\ Constructing ~> ~Constructing
                  /\ pool = "draining" ~> pool = "gone"

(* syncWait returns, whichever of several drivers leaves the coroutine     *)
(* last: only that one notifies, and the done bit itself does not.         *)
SyncWaitReturns == \A w \in Waiters : wpc[w] = "coroutine" ~> wpc[w] = "out"
=============================================================================
