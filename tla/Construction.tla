---------------------------- MODULE Construction ----------------------------
(***************************************************************************)
(* The constructor of a standalone pool, initWorkers: it creates the       *)
(* threads of the workers, waits until all of them have arrived, pins its  *)
(* caller and probes the CPUs.  If a thread cannot be had it ends those it *)
(* has and throws.                                                         *)
(*                                                                         *)
(* Sources: thread_pool.h (initWorkers, workerEntry, shutdownAndJoin),     *)
(* Linux.  The layout of the slots is in module Topology.                  *)
(***************************************************************************)
EXTENDS CoherenceProbe

CONSTANTS FailsAt     (* where the constructor may fail: "attributes",       *)
                      (* "create", "late"                                    *)

ConstructionAssumption == Cpus > 1 /\ FailsAt \subseteq {"attributes", "create", "late"}

ASSUME ConstructionAssumption

Workers == 1 .. Cpus - 1

VARIABLES
  ctor,      (* where the constructor is                                   *)
  slot,      (* the worker it is at                                        *)
  handles,   (* m_workerThreads: the slots that have an entry              *)
  workers,   (* the thread of each worker                                  *)
  leaving    (* the shutdown bit in the mailboxes                          *)

ctorVars == <<ctor, slot, handles, workers, leaving>>
constructionVars == <<ctorVars, probeVars>>

ConstructionInit ==
  /\ ctor = "spawn" /\ slot = 1
  /\ handles = Workers                    \* resized before the first thread
  /\ workers = [w \in Workers |-> "none"]
  /\ leaving = FALSE
  /\ ProbeInit

Running == {w \in Workers : workers[w] \in {"created", "ready"}}
Ready == {w \in Workers : workers[w] = "ready"}

-----------------------------------------------------------------------------
Create ==
  /\ ctor = "spawn" /\ slot \in Workers
  /\ workers' = [workers EXCEPT ![slot] = "created"]
  /\ slot' = slot + 1
  /\ UNCHANGED <<ctor, handles, leaving, probeVars>>

(* A thread cannot be had: if it was pthread_create that failed the entries *)
(* from this slot on go, if it was a call for the attributes none does.    *)
Unresized == handles                      \* mutant
Created == {w \in handles : w < slot}

CreationFails ==
  /\ ctor = "spawn" /\ slot \in Workers
  /\ \E call \in FailsAt \ {"late"} :
       handles' = IF call = "create" THEN Created ELSE handles
  /\ ctor' = "shutdown"
  /\ UNCHANGED <<slot, workers, leaving, probeVars>>

(* m_workersReady *)
Barrier ==
  /\ ctor = "spawn" /\ slot \notin Workers
  /\ Cardinality(Ready) = Cpus - 1
  /\ ctor' = "pin"
  /\ UNCHANGED <<slot, handles, workers, leaving, probeVars>>

(* autoPinProducerOnce is added where the module is used. *)
PinProducer ==
  /\ ctor = "pin"
  /\ ctor' = IF Cpus > 2 THEN "probe" ELSE "made"
  /\ UNCHANGED <<slot, handles, workers, leaving, probeVars>>

(* If there is no memory for the list of CPUs or the cache's entry the     *)
(* exception passes nothing that would end the workers.                    *)
ProbeDone ==
  /\ ctor = "probe" /\ Probed
  /\ ctor' \in {"made"} \union (IF "late" \in FailsAt THEN {"failed"} ELSE {})
  /\ UNCHANGED <<slot, handles, workers, leaving, probeVars>>

(* shutdownAndJoin, on the way out. *)
SignalEnd ==
  /\ ctor = "shutdown"
  /\ leaving' = TRUE
  /\ ctor' = "join"
  /\ UNCHANGED <<slot, handles, workers, probeVars>>

JoinWorker ==
  /\ ctor = "join" /\ handles # {}
  /\ \E w \in handles : /\ \A v \in handles : w <= v
                        /\ workers[w] = "gone"
                        /\ handles' = handles \ {w}
  /\ UNCHANGED <<ctor, slot, workers, leaving, probeVars>>

Throw ==
  /\ ctor = "join" /\ handles = {}
  /\ ctor' = "failed"
  /\ UNCHANGED <<slot, handles, workers, leaving, probeVars>>

-----------------------------------------------------------------------------
(* workerEntry: the worker reports before it looks at its mailbox. *)
Report(w) ==
  /\ workers[w] = "created"
  /\ workers' = [workers EXCEPT ![w] = "ready"]
  /\ UNCHANGED <<ctor, slot, handles, leaving, probeVars>>

LeaveLoop(w) ==
  /\ workers[w] = "ready" /\ leaving
  /\ workers' = [workers EXCEPT ![w] = "gone"]
  /\ UNCHANGED <<ctor, slot, handles, leaving, probeVars>>

WorkerThread(w) == Report(w) \/ LeaveLoop(w)
OfProbe(A) == ctor = "probe" /\ A /\ UNCHANGED ctorVars

(* The destructor ends the workers of a pool that was made (module         *)
(* Parking).                                                               *)
EndWorkers ==
  /\ workers' = [w \in Workers |-> "gone"]
  /\ handles' = {} /\ leaving' = TRUE
  /\ UNCHANGED <<ctor, slot, probeVars>>

Constructor == \/ Create \/ CreationFails \/ Barrier \/ ProbeDone
               \/ SignalEnd \/ JoinWorker \/ Throw
Constructing == ctor \notin {"made", "failed"}
=============================================================================
