---------------------------- MODULE DispatchGate ----------------------------
(***************************************************************************)
(* The gate in front of a dispatch: the priority lanes of                  *)
(* acquireDispatchGate, the lock word under them (dispatchGateTryLock,     *)
(* dispatchGateLock, dispatchGateUnlock), and the lease that leaves the    *)
(* gate out for the owner of a low-latency scope.                          *)
(*                                                                         *)
(* The lock is the Windows build's, a word with a waiter bit over          *)
(* WaitOnAddress; the std::mutex of the other builds keeps the same        *)
(* promise and is not the repository's code.  Each load, exchange or       *)
(* compare-and-swap is a step, and so is the call that parks or wakes.     *)
(***************************************************************************)
EXTENDS Integers, FiniteSets

CONSTANTS Threads,      (* the threads that dispatch                      *)
          Lane,         (* the priority of each thread's calls            *)
          Scoped,       (* the threads that open low-latency scopes       *)
          OneProducer,  (* nobody else uses the pool during a scope       *)
          MaxCalls      (* bound on the calls of each thread              *)

Lanes == {"latency", "throughput", "background"}

GateAssumption ==
  /\ IsFiniteSet(Threads)
  /\ Lane \in [Threads -> Lanes]
  /\ Scoped \subseteq Threads
  /\ OneProducer \in BOOLEAN
  /\ MaxCalls \in Nat

ASSUME GateAssumption

VARIABLES
  held,        (* m_dispatchMutex: kHeldBit                               *)
  waiter,      (* m_dispatchMutex: kHasWaiterBit                          *)
  latency,     (* m_latencyWaiting                                        *)
  throughput,  (* m_throughputWaiting                                     *)
  scopes,      (* the open low-latency scopes, by owner: hotSpinDepth     *)
  pc,          (* where each thread is                                    *)
  next,        (* where it goes once its lock or unlock is done           *)
  calls,       (* the calls each thread has made                          *)
  overtaken    (* history: lower lanes let in since a thread registered   *)

lock == <<held, waiter>>
counters == <<latency, throughput>>
vars == <<lock, counters, scopes, pc, next, calls, overtaken>>

Init ==
  /\ held = FALSE /\ waiter = FALSE
  /\ latency = 0 /\ throughput = 0
  /\ scopes = {}
  /\ pc = [t \in Threads |-> "idle"]
  /\ next = [t \in Threads |-> "idle"]
  /\ calls = [t \in Threads |-> 0]
  /\ overtaken = [t \in Threads |-> 0]

At(t, here) == pc[t] = here
Go(t, to) == pc' = [pc EXCEPT ![t] = to]

(* Where a thread is from its registration in a counted lane to its turn. *)
Registered(t) ==
  \/ /\ Lane[t] = "latency"
     /\ pc[t] \in {"lock", "slow", "park", "parked", "deregister"}
  \/ /\ Lane[t] = "throughput"
     /\ \/ pc[t] \in {"wait", "lock", "slow", "park", "parked", "recheck",
                      "deregister"}
        \/ pc[t] \in {"unlock", "wake"} /\ next[t] = "wait"

Outranks(t, u) == \/ Lane[t] = "latency" /\ Lane[u] # "latency"
                  \/ Lane[t] = "throughput" /\ Lane[u] = "background"

(* t is let in: the last of its checks that a higher lane is empty passed. *)
LetIn(t) == overtaken' = [u \in Threads |->
                            IF Registered(u) /\ Outranks(u, t)
                            THEN overtaken[u] + 1 ELSE overtaken[u]]

-----------------------------------------------------------------------------
(***************************************************************************)
(* The lock word.                                                          *)
(***************************************************************************)

FreeByWaiter == ~waiter         \* mutant: tests the waiter bit only
Free == ~held /\ ~waiter

(* dispatchGateLock, first by a compare-and-swap and a bounded spin ... *)
LockFast(t) ==
  /\ At(t, "lock")
  /\ Free
  /\ held' = TRUE
  /\ Go(t, next[t])
  /\ UNCHANGED <<waiter, counters, scopes, next, calls, overtaken>>

SpinOut(t) ==
  /\ At(t, "lock")
  /\ Go(t, "slow")
  /\ UNCHANGED <<lock, counters, scopes, next, calls, overtaken>>

(* ... then by a loop that parks, and that takes the lock with the waiter  *)
(* bit set because others may be parked.                                   *)
BitDropped == FALSE             \* mutant: the slow path takes kHeldBit only
BitKept == TRUE

LockSlow(t) ==
  /\ At(t, "slow")
  /\ Free
  /\ held' = TRUE
  /\ waiter' = BitKept
  /\ Go(t, next[t])
  /\ UNCHANGED <<counters, scopes, next, calls, overtaken>>

MarkWaiter(t) ==
  /\ At(t, "slow")
  /\ held
  /\ waiter' = TRUE
  /\ Go(t, "park")
  /\ UNCHANGED <<held, counters, scopes, next, calls, overtaken>>

(* WaitOnAddress compares the word and returns if it moved. *)
Park(t) ==
  /\ At(t, "park")
  /\ Go(t, IF held /\ waiter THEN "parked" ELSE "slow")
  /\ UNCHANGED <<lock, counters, scopes, next, calls, overtaken>>

(* dispatchGateUnlock: the exchange, then the wake of any one waiter. *)
Unlock(t) ==
  /\ At(t, "unlock")
  /\ held' = FALSE /\ waiter' = FALSE
  /\ Go(t, IF waiter THEN "wake" ELSE next[t])
  /\ UNCHANGED <<counters, scopes, next, calls, overtaken>>

Parked == {u \in Threads : At(u, "parked")}

Wake(t) ==
  /\ At(t, "wake")
  /\ \/ /\ Parked = {}
        /\ Go(t, next[t])
     \/ \E u \in Parked : pc' = [pc EXCEPT ![t] = next[t], ![u] = "slow"]
  /\ UNCHANGED <<lock, counters, scopes, next, calls, overtaken>>

-----------------------------------------------------------------------------
(***************************************************************************)
(* acquireDispatchGate, by lane, and the lease around it.                  *)
(***************************************************************************)
LockThen(t, to) == Go(t, "lock") /\ next' = [next EXCEPT ![t] = to]
UnlockThen(t, to) == Go(t, "unlock") /\ next' = [next EXCEPT ![t] = to]

(* DispatchLease: the owner of an open scope goes in without the gate. *)
SkipsGate(t) == t \in scopes

Call(t) ==
  /\ At(t, "idle")
  /\ calls[t] < MaxCalls
  /\ OneProducer => scopes \subseteq {t}
  /\ calls' = [calls EXCEPT ![t] = @ + 1]
  /\ Go(t, IF SkipsGate(t) THEN "insideFree"
           ELSE CASE Lane[t] = "latency"    -> "register"
                  [] Lane[t] = "throughput" -> "fast"
                  [] Lane[t] = "background" -> "wait")
  /\ UNCHANGED <<lock, counters, scopes, next, overtaken>>

(* A throughput caller tries the lock without registering. *)
FastLoad(t) ==
  /\ At(t, "fast")
  /\ Go(t, IF latency = 0 THEN "try" ELSE "register")
  /\ UNCHANGED <<lock, counters, scopes, next, calls, overtaken>>

FastTry(t) ==
  /\ At(t, "try")
  /\ IF Free
     THEN held' = TRUE /\ Go(t, "fastRecheck")
     ELSE UNCHANGED held /\ Go(t, "register")
  /\ UNCHANGED <<waiter, counters, scopes, next, calls, overtaken>>

FastRecheck(t) ==
  /\ At(t, "fastRecheck")
  /\ IF latency = 0
     THEN Go(t, "inside") /\ LetIn(t) /\ UNCHANGED next
     ELSE UnlockThen(t, "register") /\ UNCHANGED overtaken
  /\ UNCHANGED <<lock, counters, scopes, calls>>

Register(t) ==
  /\ At(t, "register")
  /\ IF Lane[t] = "latency"
     THEN /\ latency' = latency + 1
          /\ LockThen(t, "deregister")
          /\ UNCHANGED throughput
     ELSE /\ throughput' = throughput + 1
          /\ Go(t, "wait")
          /\ UNCHANGED <<latency, next>>
  /\ overtaken' = [overtaken EXCEPT ![t] = 0]
  /\ UNCHANGED <<lock, scopes, calls>>

(* The lower lanes wait for the higher ones to be empty; background looks  *)
(* at one counter after the other.                                         *)
WaitLatency(t) ==
  /\ At(t, "wait")
  /\ latency = 0
  /\ IF Lane[t] = "throughput" THEN LockThen(t, "recheck")
                               ELSE Go(t, "waitThroughput") /\ UNCHANGED next
  /\ UNCHANGED <<lock, counters, scopes, calls, overtaken>>

WaitThroughput(t) ==
  /\ At(t, "waitThroughput")
  /\ IF throughput = 0 THEN LockThen(t, "recheck")
                       ELSE Go(t, "wait") /\ UNCHANGED next
  /\ UNCHANGED <<lock, counters, scopes, calls, overtaken>>

(* Under the lock they look again, and give it back to a higher lane. *)
NotRechecked(n) == TRUE         \* mutant: the check under the lock is missing
Empty(n) == n = 0

Recheck(t) ==
  /\ At(t, "recheck")
  /\ IF Empty(latency)
     THEN /\ IF Lane[t] = "throughput"
             THEN Go(t, "deregister") /\ LetIn(t)
             ELSE Go(t, "recheckThroughput") /\ UNCHANGED overtaken
          /\ UNCHANGED next
     ELSE UnlockThen(t, "wait") /\ UNCHANGED overtaken
  /\ UNCHANGED <<lock, counters, scopes, calls>>

RecheckThroughput(t) ==
  /\ At(t, "recheckThroughput")
  /\ IF Empty(throughput)
     THEN Go(t, "inside") /\ LetIn(t) /\ UNCHANGED next
     ELSE UnlockThen(t, "wait") /\ UNCHANGED overtaken
  /\ UNCHANGED <<lock, counters, scopes, calls>>

LeftRegistered(n) == n          \* mutant: the counter is not decremented
TakenOffTwice(n) == n - 2       \* mutant: it is decremented twice
TakenOff(n) == n - 1

Deregister(t) ==
  /\ At(t, "deregister")
  /\ IF Lane[t] = "latency"
     THEN latency' = TakenOff(latency) /\ UNCHANGED throughput
     ELSE throughput' = TakenOff(throughput) /\ UNCHANGED latency
  /\ Go(t, "inside")
  /\ UNCHANGED <<lock, scopes, next, calls, overtaken>>

(* The dispatch is over and the lease ends. *)
Leave(t) ==
  /\ pc[t] \in {"inside", "insideFree"}
  /\ IF At(t, "inside") THEN UnlockThen(t, "idle")
                        ELSE Go(t, "idle") /\ UNCHANGED next
  /\ UNCHANGED <<lock, counters, scopes, calls, overtaken>>

(* LowLatencyGuard, opened and closed between the owner's calls. *)
OpenScope(t) ==
  /\ At(t, "idle") /\ t \in Scoped \ scopes
  /\ calls[t] < MaxCalls
  /\ OneProducer => scopes = {} /\ \A u \in Threads : At(u, "idle")
  /\ scopes' = scopes \union {t}
  /\ UNCHANGED <<lock, counters, pc, next, calls, overtaken>>

CloseScope(t) ==
  /\ At(t, "idle") /\ t \in scopes
  /\ scopes' = scopes \ {t}
  /\ UNCHANGED <<lock, counters, pc, next, calls, overtaken>>

-----------------------------------------------------------------------------
Word(t)    == LockFast(t) \/ SpinOut(t) \/ LockSlow(t) \/ MarkWaiter(t)
                \/ Park(t) \/ Unlock(t) \/ Wake(t)
Fast(t)    == FastLoad(t) \/ FastTry(t) \/ FastRecheck(t)
Queue(t)   == \/ Register(t) \/ Deregister(t)
              \/ WaitLatency(t) \/ WaitThroughput(t)
Look(t)    == Recheck(t) \/ RecheckThroughput(t)
Acquire(t) == Word(t) \/ Fast(t) \/ Queue(t) \/ Look(t) \/ Leave(t)

(* Every thread has made its calls and closed its scope. *)
Done == /\ \A t \in Threads : At(t, "idle") /\ calls[t] = MaxCalls
        /\ scopes = {}
        /\ UNCHANGED vars

Next == \/ \E t \in Threads : \/ Call(t) \/ Acquire(t)
                             \/ OpenScope(t) \/ CloseScope(t)
        \/ Done

(* Every thread inside a call runs, and every scope is closed in the end. *)
Fairness == \A t \in Threads : WF_vars(Acquire(t)) /\ WF_vars(CloseScope(t))

Spec == Init /\ [][Next]_vars
FairSpec == Spec /\ Fairness

-----------------------------------------------------------------------------
(***************************************************************************)
(* Properties.                                                             *)
(***************************************************************************)
PCs == {"idle", "register", "fast", "try", "fastRecheck", "wait",
        "waitThroughput", "lock", "slow", "park", "parked", "recheck",
        "recheckThroughput", "deregister", "inside", "insideFree", "unlock",
        "wake"}

(* The types of the gate's state. *)
TypeOK ==
  /\ held \in BOOLEAN /\ waiter \in BOOLEAN
  /\ latency \in 0..Cardinality(Threads)
  /\ throughput \in 0..Cardinality(Threads)
  /\ scopes \subseteq Scoped
  /\ pc \in [Threads -> PCs]
  /\ next \in [Threads -> PCs]
  /\ calls \in [Threads -> 0..MaxCalls]
  /\ overtaken \in [Threads -> Nat]

(* Two dispatches are never in progress at once: producers serialize       *)
(* through the lease, whatever their lanes.                                *)
Inside == {t \in Threads : pc[t] \in {"inside", "insideFree"}}
OneDispatch == \A t, u \in Inside : t = u

(* A thread parked on the lock word is not stranded: the word says that    *)
(* somebody waits, or a thread that is awake on the slow path, or about to *)
(* wake one, will see to it.                                               *)
NoneStranded ==
  Parked # {} => \/ held /\ waiter
                 \/ \E t \in Threads : pc[t] \in {"slow", "park", "wake"}

(* Once it has registered, a latency caller sees at most one caller of a   *)
(* lower lane let in before it, a background caller already between its    *)
(* two checks; a registered throughput caller sees no background caller.   *)
LaneOrder ==
  \A t \in Threads : Registered(t) =>
    overtaken[t] <= IF Lane[t] = "latency" THEN 1 ELSE 0

(* A dispatch that asked for the gate gets it, although the lower lanes    *)
(* give the lock back and the lock is not fair.                            *)
Asking(t) == /\ pc[t] \notin {"idle", "inside", "insideFree"}
             /\ ~(pc[t] \in {"unlock", "wake"} /\ next[t] = "idle")
GateOpens == \A t \in Threads : Asking(t) ~> At(t, "inside")
=============================================================================
