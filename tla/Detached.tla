------------------------------ MODULE Detached ------------------------------
(***************************************************************************)
(* submitDetached and the end of a pool: every detached task runs on a     *)
(* thread of its own, the pool counts those in flight, and its destructor  *)
(* waits for none to be left, on whatever thread the last reference to the *)
(* pool is dropped, which may be that of a task.                           *)
(*                                                                         *)
(* Sources: thread_pool.h (submitDetached, runDetached,                    *)
(* waitForDetachedDrain, ~ThreadPool).                                     *)
(*                                                                         *)
(* The pool is held by shared references: the callers have one each, and a *)
(* task's closure may have a copy of its submitter's.                      *)
(***************************************************************************)
EXTENDS Integers, FiniteSets

CONSTANTS Callers,   (* threads that hold the pool and submit to it         *)
          MaxTasks,  (* bound on the tasks submitted                        *)
          Nobody

DetachedAssumption == /\ MaxTasks \in Nat /\ IsFiniteSet(Callers)
                      /\ Callers \intersect (1 .. MaxTasks) = {}
                      /\ Nobody \notin Callers \union (1 .. MaxTasks)

ASSUME DetachedAssumption

Tasks == 1 .. MaxTasks
Threads == Callers \union Tasks          \* a task is also its thread

VARIABLES
  refs,       (* who holds a reference: callers, and the closures of tasks   *)
  pool,       (* the object: "alive", "draining", "gone"                     *)
  destroyer,  (* the thread in ~ThreadPool, and how far it is                *)
  inFlight,   (* m_detachedInFlight                                          *)
  mutex,      (* m_detachedMutex: its holder                                *)
  asleep,     (* the threads asleep on m_detachedDone                        *)
  latched,    (* m_detachedException: the task that threw it                *)
  stopped,    (* the tasks whose token is stopped                            *)
  tpc,        (* per task: where its thread is                               *)
  submit      (* per thread: the submission it is in                         *)

detachedVars == <<refs, pool, destroyer, inFlight, mutex, asleep, latched,
                  stopped, tpc, submit>>

NotSubmitting == [at |-> "no", task |-> 0]
NoDestroyer == [who |-> Nobody, at |-> "no"]

DetachedInit ==
  /\ refs = Callers
  /\ pool = "alive" /\ destroyer = NoDestroyer
  /\ inFlight = 0 /\ mutex = Nobody /\ asleep = {}
  /\ latched = 0 /\ stopped = {}
  /\ tpc = [t \in Tasks |-> "none"]
  /\ submit = [h \in Threads |-> NotSubmitting]

(* Who may submit: a caller that has its reference, and a task from its    *)
(* body, which its own count keeps the pool alive for.                     *)
MaySubmit(h) == /\ submit[h].at = "no"
                /\ IF h \in Callers THEN h \in refs ELSE tpc[h] = "body"

NextTask == Cardinality({t \in Tasks : tpc[t] # "none"}) + 1
AtTask(t, place) == tpc[t] = place
GoTask(t, place) == tpc' = [tpc EXCEPT ![t] = place]
GoSubmit(h, place) == submit' = [submit EXCEPT ![h].at = place]

-----------------------------------------------------------------------------
(* submitDetached, with a token that is not stopped: the count goes up     *)
(* before the thread is there.                                             *)
NotCounted(n) == n                        \* mutant
Counted(n) == n + 1

Submit(h) ==
  LET t == NextTask
  IN  /\ MaySubmit(h) /\ t \in Tasks
      /\ inFlight' = Counted(inFlight)
      /\ GoTask(t, "made")
      /\ submit' = [submit EXCEPT ![h] = [at |-> "counted", task |-> t]]
      /\ refs' \in {refs, IF h \in refs THEN refs \union {t} ELSE refs}
      /\ UNCHANGED <<pool, destroyer, mutex, asleep, latched, stopped>>

Spawn(h) ==
  /\ submit[h].at = "counted"
  /\ GoTask(submit[h].task, "spawned")
  /\ submit' = [submit EXCEPT ![h] = NotSubmitting]
  /\ UNCHANGED <<refs, pool, destroyer, inFlight, mutex, asleep, latched, stopped>>

(* No thread to be had: the closure is destroyed, the count rolled back,   *)
(* outside the lock, and whoever waits is told.                            *)
SpawnFails(h) ==
  /\ submit[h].at = "counted"
  /\ GoTask(submit[h].task, "over")
  /\ refs' = refs \ {submit[h].task}
  /\ inFlight' = inFlight - 1
  /\ GoSubmit(h, "tell")
  /\ UNCHANGED <<pool, destroyer, mutex, asleep, latched, stopped>>

TellRolledBack(h) ==
  /\ submit[h].at = "tell" /\ mutex = Nobody
  /\ asleep' = {}
  /\ submit' = [submit EXCEPT ![h] = NotSubmitting]
  /\ UNCHANGED <<refs, pool, destroyer, inFlight, mutex, latched, stopped, tpc>>

StopTask(t) ==
  /\ t \notin stopped /\ AtTask(t, "spawned")
  /\ stopped' = stopped \union {t}
  /\ UNCHANGED <<refs, pool, destroyer, inFlight, mutex, asleep, latched, tpc, submit>>

-----------------------------------------------------------------------------
(* runDetached. *)
Start(t) ==
  /\ AtTask(t, "spawned")
  /\ GoTask(t, IF t \in stopped THEN "leave" ELSE "body")
  /\ UNCHANGED <<refs, pool, destroyer, inFlight, mutex, asleep, latched, stopped, submit>>

EndBody(t) ==
  /\ AtTask(t, "body") /\ submit[t].at = "no"
  /\ GoTask(t, "leave")
  /\ UNCHANGED <<refs, pool, destroyer, inFlight, mutex, asleep, latched, stopped, submit>>

ThrowBody(t) ==
  /\ AtTask(t, "body") /\ submit[t].at = "no"
  /\ GoTask(t, "latch")
  /\ UNCHANGED <<refs, pool, destroyer, inFlight, mutex, asleep, latched, stopped, submit>>

Latch(t) ==
  /\ AtTask(t, "latch") /\ mutex = Nobody
  /\ latched' = IF latched = 0 THEN t ELSE latched
  /\ GoTask(t, "leave")
  /\ UNCHANGED <<refs, pool, destroyer, inFlight, mutex, asleep, stopped, submit>>

(* The lock is held across the decrement and the notification. *)
LockNotNeeded(t) == TRUE                 \* mutant
LockFree(t) == mutex = Nobody

LeaveFlight(t) ==
  /\ AtTask(t, "leave") /\ LockFree(t)
  /\ inFlight' = inFlight - 1
  /\ asleep' = {}
  /\ GoTask(t, "reset")
  /\ UNCHANGED <<refs, pool, destroyer, mutex, latched, stopped, submit>>

(* A reference goes: with the last one the pool does, on this thread. *)
Drop(h) ==
  /\ refs' = refs \ {h}
  /\ IF h \in refs /\ refs = {h}
     THEN /\ pool' = "draining"
          /\ destroyer' = [who |-> h, at |-> "lock"]
     ELSE UNCHANGED <<pool, destroyer>>

ResetClosure(t) ==
  /\ AtTask(t, "reset")
  /\ Drop(t)
  /\ GoTask(t, "over")
  /\ UNCHANGED <<inFlight, mutex, asleep, latched, stopped, submit>>

DropByCaller(h) ==
  /\ h \in Callers /\ h \in refs /\ submit[h].at = "no"
  /\ Drop(h)
  /\ UNCHANGED <<inFlight, mutex, asleep, latched, stopped, tpc, submit>>

-----------------------------------------------------------------------------
(* ~ThreadPool: waitForDetachedDrain, under the lock; then the pool goes.  *)
GoDestroyer(place) == destroyer' = [destroyer EXCEPT !.at = place]

DrainLock ==
  /\ destroyer.at = "lock" /\ mutex = Nobody
  /\ mutex' = destroyer.who
  /\ GoDestroyer("check")
  /\ UNCHANGED <<refs, pool, inFlight, asleep, latched, stopped, tpc, submit>>

DrainCheck ==
  /\ destroyer.at = "check"
  /\ GoDestroyer(IF inFlight = 0 THEN "drained" ELSE "wait")
  /\ UNCHANGED <<refs, pool, inFlight, mutex, asleep, latched, stopped, tpc, submit>>

(* condition_variable::wait releases the lock as it goes to sleep, and     *)
(* takes it again after.                                                   *)
DrainWait ==
  /\ destroyer.at = "wait"
  /\ mutex' = Nobody
  /\ asleep' = asleep \union {destroyer.who}
  /\ GoDestroyer("asleep")
  /\ UNCHANGED <<refs, pool, inFlight, latched, stopped, tpc, submit>>

DrainWake ==
  /\ destroyer.at = "asleep" /\ destroyer.who \notin asleep
  /\ GoDestroyer("lock")
  /\ UNCHANGED <<refs, pool, inFlight, mutex, asleep, latched, stopped, tpc, submit>>

Destroyed ==
  /\ destroyer.at = "drained"
  /\ mutex' = Nobody
  /\ pool' = "gone"
  /\ destroyer' = NoDestroyer
  /\ UNCHANGED <<refs, inFlight, asleep, latched, stopped, tpc, submit>>

Draining == DrainLock \/ DrainCheck \/ DrainWait \/ DrainWake

TaskThread(t) == \/ Start(t) \/ EndBody(t) \/ ThrowBody(t) \/ Latch(t)
                 \/ LeaveFlight(t) \/ ResetClosure(t)
Submission(h) == Spawn(h) \/ SpawnFails(h) \/ TellRolledBack(h)

(* The threads that touch the pool's memory. *)
TasksInPool == {t \in Tasks : tpc[t] \in {"body", "latch", "leave"}}
SubmittersInPool == {h \in Threads : submit[h].at # "no"}
=============================================================================
