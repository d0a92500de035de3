------------------------------- MODULE AutoPin -------------------------------
(***************************************************************************)
(* The affinity of the threads that use a pool: the constructor and the    *)
(* first call of a thread pin it to the CPU of slot 0, a guard may bind it *)
(* for a while, and the destructor of the pool gives it back the mask it   *)
(* had.  One record of that mask is the thread's, another one the pool's.  *)
(*                                                                         *)
(* Source: thread_pool.h (AutoPinState, autoPinProducerOnce,               *)
(* ensureProducerPinnedForChunkZero, autoPinRestoreIfOurs,                 *)
(* ProducerAffinityGuard), the Linux branch.                               *)
(*                                                                         *)
(* A mask is "wide" (what a thread starts with), "part" (several CPUs of   *)
(* one CCD) or "slot" (one CPU).  A pool is known by its address: a later  *)
(* one may have the name of an earlier one.                                *)
(***************************************************************************)
CONSTANTS PinThreads,  (* the threads that use or destroy a pool             *)
          Pools,       (* their addresses                                    *)
          NoPool,
          GuardMasks   (* what a guard may give: "slot", "part"              *)

PinAssumption == NoPool \notin Pools /\ GuardMasks \subseteq {"slot", "part"}

ASSUME PinAssumption

VARIABLES
  mask,    (* the affinity of each thread                                  *)
  tls,     (* AutoPinState of each thread                                  *)
  mirror,  (* m_autoPinActive, m_autoPinProducer, m_autoPinSaved           *)
  bound    (* ProducerAffinityGuard: the mask it saved, or "none"          *)

pinVars == <<mask, tls, mirror, bound>>

NoRecord == [active |-> FALSE, producer |-> NoPool, saved |-> "none"]

AutoPinInit ==
  /\ mask = [t \in PinThreads |-> "wide"]
  /\ tls = [t \in PinThreads |-> [saved |-> "none", pool |-> NoPool, pending |-> FALSE]]
  /\ mirror = [p \in Pools |-> NoRecord]
  /\ bound = [t \in PinThreads |-> "none"]

(* The mask to go back to: the one an earlier pool has saved, if any. *)
ToRestore(state, current) == IF state.pending THEN state.saved ELSE current

(* A thread that is on one CPU already is left there, whoever put it. *)
AutoPin(t, p) ==
  IF mask[t] = "slot"
  THEN /\ tls' = [tls EXCEPT ![t].pool = p]
       /\ UNCHANGED <<mask, mirror, bound>>
  ELSE LET saved == ToRestore(tls[t], mask[t])
       IN  /\ mask' = [mask EXCEPT ![t] = "slot"]
           /\ tls' = [tls EXCEPT ![t] = [saved |-> saved, pool |-> p, pending |-> TRUE]]
           /\ mirror' = [mirror EXCEPT ![p] = [active |-> TRUE, producer |-> t, saved |-> saved]]
           /\ UNCHANGED bound

(* A call: the thread's tag says whether it has been here. *)
EnsurePinned(t, p) == IF tls[t].pool = p THEN UNCHANGED pinVars ELSE AutoPin(t, p)

(* A guard: one CPU, or, if a sibling lies outside the mask, what the mask *)
(* has of the CCD.                                                         *)
Bind(t) ==
  /\ bound[t] = "none"
  /\ bound' = [bound EXCEPT ![t] = mask[t]]
  /\ mask' \in {[mask EXCEPT ![t] = m] :
                  m \in IF mask[t] = "slot" THEN {"slot"} ELSE GuardMasks}
  /\ UNCHANGED <<tls, mirror>>

Unbind(t) ==
  /\ bound[t] # "none"
  /\ mask' = [mask EXCEPT ![t] = bound[t]]
  /\ bound' = [bound EXCEPT ![t] = "none"]
  /\ UNCHANGED <<tls, mirror>>

(* The destructor of p on thread t: the pool's record says whom to unpin,  *)
(* the thread's is cleared if it is of this pool.  The pool's record goes  *)
(* with the pool.                                                          *)
Itself(t, p) == t                         \* mutant: the thread's record only
Unpinned(t, p) == mirror[p].producer

Restore(t, p) ==
  /\ mask' = IF mirror[p].active
             THEN [mask EXCEPT ![Unpinned(t, p)] = mirror[p].saved] ELSE mask
  /\ tls' = IF tls[t].pool = p
            THEN [tls EXCEPT ![t].pending = FALSE, ![t].pool = NoPool] ELSE tls
  /\ mirror' = [mirror EXCEPT ![p] = NoRecord]
  /\ UNCHANGED bound
=============================================================================
