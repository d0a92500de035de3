--------------------------- MODULE LifetimeProofs ---------------------------
(***************************************************************************)
(* What the run of Lifetime checks for two callers, two tasks and two      *)
(* drivers, proved for any number of them: nobody uses a pool that is gone *)
(* or a coroutine that is destroyed, and a constructor has all its workers *)
(* or has ended those it has made.                                         *)
(***************************************************************************)
EXTENDS Lifetime, FiniteSetTheorems, FunctionTheorems, TLAPS

(* The places of a task, and those in which it is counted. *)
Flying == {"made", "spawned", "body", "latch", "leave"}
Places == {"none", "reset", "over"} \union Flying
InFlight == {t \in Tasks : tpc[t] \in Flying}

Types ==
  /\ tpc \in [Tasks -> Places]
  /\ submit \in [Threads -> [at : {"no", "counted", "tell"}, task : 0 .. MaxTasks]]
  /\ pool \in {"alive", "draining", "gone"}
  /\ destroyer \in [who : Threads \union {Nobody},
                    at : {"no", "lock", "check", "wait", "asleep", "drained"}]

(* m_detachedInFlight counts what is in flight, and the tasks are submitted *)
(* one after the other.                                                    *)
CountInv == inFlight = Cardinality(InFlight)
OrderInv == \E k \in 0 .. MaxTasks : \A t \in Tasks : tpc[t] # "none" <=> t <= k

(* A thread in submitDetached has a hold on the pool: the reference of a   *)
(* caller, or the count of the task it is in the body of.                  *)
HoldsPool(h) == IF h \in Callers THEN h \in refs ELSE tpc[h] = "body"
SubmitInv ==
  \A h \in Threads :
    /\ submit[h].at # "no" => HoldsPool(h)
    /\ submit[h].at = "counted" =>
         /\ submit[h].task \in Tasks
         /\ tpc[submit[h].task] = "made"
         /\ \A g \in Threads \ {h} :
              submit[g].at = "counted" => submit[g].task # submit[h].task

(* The destructor runs without references, and is past its wait when no    *)
(* task is in flight.                                                      *)
EndInv ==
  /\ pool # "alive" => refs = {}
  /\ destroyer.at # "no" => pool = "draining"
  /\ destroyer.at = "drained" \/ pool = "gone" => InFlight = {}

IInv == Types /\ CountInv /\ OrderInv /\ SubmitInv /\ EndInv

-----------------------------------------------------------------------------
(* The steps that touch the state of Detached, whatever else of the pool   *)
(* they touch.                                                             *)
DetachedStep ==
  \/ \E h \in Threads : Submit(h) \/ Submission(h)
  \/ \E t \in Tasks : TaskThread(t) \/ StopTask(t)
  \/ \E h \in Callers : DropByCaller(h)
  \/ Draining \/ Destroyed

(* Making the pool, waiting for a coroutine, calling a primitive and the   *)
(* other pool leave what submitDetached and runDetached keep alone.        *)
LEMMA OnlyDetached == [Next]_vars => DetachedStep \/ UNCHANGED detachedVars
<1> SUFFICES ASSUME [Next]_vars PROVE DetachedStep \/ UNCHANGED detachedVars
  OBVIOUS
<1>1. CASE MakePool
  BY <1>1 DEF MakePool, OnConstruction, PinMaker
<1>2. ASSUME NEW p \in DOMAIN ping, HelperStep(p) PROVE UNCHANGED detachedVars
  BY <1>2 DEF HelperStep, OnConstruction
<1>3. ASSUME NEW w \in Workers, WorkerStep(w) PROVE UNCHANGED detachedVars
  BY <1>3 DEF WorkerStep, OnConstruction
<1>4. ASSUME NEW h \in Callers,
             \/ CallerStarts(h) \/ CallerDrops(h) \/ CallerStep(h)
             \/ CallPool(h) \/ BindSlot(h) \/ EndBind(h)
      PROVE  DetachedStep \/ UNCHANGED detachedVars
  BY <1>4 DEF CallerStarts, CallerDrops, CallerStep, CallPool, BindSlot, EndBind,
              OnDetached, OnWaits, OnPins, DetachedStep, Threads
<1>5. CASE MakeOther \/ CallOther \/ EndOther
  BY <1>5 DEF MakeOther, CallOther, EndOther, OnPins
<1>6. ASSUME NEW t \in Tasks, TaskStep(t) \/ TaskSubmits(t) \/ OnDetached(StopTask(t))
      PROVE  DetachedStep
  BY <1>6 DEF TaskStep, TaskSubmits, OnDetached, DetachedStep, Threads
<1>7. ASSUME NEW d \in Drivers, DriverStep(d) PROVE UNCHANGED detachedVars
  BY <1>7 DEF DriverStep, OnWaits
<1>8. CASE DestroyPool
  BY <1>8 DEF DestroyPool, OnDetached, DetachedStep
<1>9. CASE OnWaits(EndProcess) \/ AllOver \/ UNCHANGED vars
  BY <1>9 DEF OnWaits, AllOver, vars
<1> QED
  BY <1>1, <1>2, <1>3, <1>4, <1>5, <1>6, <1>7, <1>8, <1>9 DEF Next

-----------------------------------------------------------------------------
(* The number of tasks is finite, and so is every set of them. *)
LEMMA FiniteTasks ==
  /\ MaxTasks \in Nat /\ Callers \intersect Tasks = {}
  /\ \A S \in SUBSET Tasks : IsFiniteSet(S) /\ Cardinality(S) \in Nat
<1>1. MaxTasks \in Nat /\ Callers \intersect Tasks = {}
  BY DetachedAssumption DEF DetachedAssumption, Tasks
<1>2. IsFiniteSet(Tasks)
  BY <1>1, FS_Interval DEF Tasks
<1> QED
  BY <1>1, <1>2, FS_Subset, FS_CardinalityType

(* The next task to be submitted has not been submitted before, and those  *)
(* before it have.                                                         *)
LEMMA NextIsFresh ==
  ASSUME OrderInv, NextTask \in Tasks
  PROVE  \A t \in Tasks : tpc[t] # "none" <=> t < NextTask
<1>1. PICK k \in 0 .. MaxTasks : \A t \in Tasks : tpc[t] # "none" <=> t <= k
  BY DEF OrderInv
<1>2. {t \in Tasks : tpc[t] # "none"} = 1 .. k
  BY <1>1, FiniteTasks DEF Tasks
<1>3. Cardinality(1 .. k) = k
  BY FS_Interval, FiniteTasks
<1>4. NextTask = k + 1
  BY <1>2, <1>3 DEF NextTask
<1> QED
  BY <1>1, <1>4, FiniteTasks DEF Tasks

(* A task that goes from one place to another joins those in flight or     *)
(* leaves them.                                                            *)
LEMMA TaskMoves ==
  ASSUME Types, NEW t \in Tasks, NEW place \in Places, GoTask(t, place)
  PROVE  /\ tpc' \in [Tasks -> Places]
         /\ \A u \in Tasks : tpc'[u] = IF u = t THEN place ELSE tpc[u]
         /\ place \in Flying => InFlight' = InFlight \union {t}
         /\ place \notin Flying => InFlight' = InFlight \ {t}
  BY DEF Types, GoTask, InFlight

(* The count follows. *)
LEMMA CountMoves ==
  /\ \A t \in Tasks : t \notin InFlight =>
       Cardinality(InFlight \union {t}) = Cardinality(InFlight) + 1
  /\ \A t \in Tasks : t \in InFlight =>
       Cardinality(InFlight \ {t}) = Cardinality(InFlight) - 1
  /\ Cardinality(InFlight) \in Nat
  /\ Cardinality(InFlight) = 0 => InFlight = {}
<1>1. IsFiniteSet(InFlight) /\ Cardinality(InFlight) \in Nat
  BY FiniteTasks DEF InFlight
<1>2. \A t \in Tasks : t \notin InFlight =>
        Cardinality(InFlight \union {t}) = Cardinality(InFlight) + 1
  BY <1>1, FS_AddElement
<1>3. \A t \in Tasks : t \in InFlight =>
        Cardinality(InFlight \ {t}) = Cardinality(InFlight) - 1
  BY <1>1, FS_RemoveElement
<1>4. Cardinality(InFlight) = 0 => InFlight = {}
  BY <1>1, FS_EmptySet
<1> QED
  BY <1>1, <1>2, <1>3, <1>4

(* No step takes a task back to where it has not been submitted. *)
LEMMA OrderKept ==
  ASSUME OrderInv, \A u \in Tasks : tpc'[u] = "none" <=> tpc[u] = "none"
  PROVE  OrderInv'
  BY DEF OrderInv

(* A task that is not about to be spawned and that is in no submission     *)
(* goes where it likes.                                                    *)
LEMMA SubmitKept ==
  ASSUME Types, SubmitInv, UNCHANGED submit,
         \A h \in Callers : h \in refs => h \in refs' \/ submit[h].at = "no",
         \A u \in Tasks : tpc'[u] # tpc[u] => tpc[u] # "made" /\ submit[u].at = "no"
  PROVE  SubmitInv'
<1> SUFFICES ASSUME NEW h \in Threads
             PROVE  /\ submit[h].at # "no" => HoldsPool(h)'
                    /\ submit[h].at = "counted" =>
                         /\ submit[h].task \in Tasks
                         /\ tpc'[submit[h].task] = "made"
                         /\ \A g \in Threads \ {h} :
                              submit[g].at = "counted" => submit[g].task # submit[h].task
  BY DEF SubmitInv
<1>1. submit[h].at # "no" => HoldsPool(h)'
  BY DEF SubmitInv, HoldsPool, Threads
<1>2. submit[h].at = "counted" =>
        /\ submit[h].task \in Tasks
        /\ tpc'[submit[h].task] = "made"
        /\ \A g \in Threads \ {h} :
             submit[g].at = "counted" => submit[g].task # submit[h].task
  BY DEF SubmitInv
<1> QED
  BY <1>1, <1>2

-----------------------------------------------------------------------------
(* At first nobody has submitted. *)
LEMMA InitHolds == Init => IInv
<1> SUFFICES ASSUME Init PROVE IInv
  OBVIOUS
<1> USE DEF Init, DetachedInit, NotSubmitting, NoDestroyer
<1>1. Types
  BY FiniteTasks DEF Types, Places, Threads
<1>2. InFlight = {}
  BY DEF InFlight, Flying
<1>3. CountInv
  BY <1>2, FS_EmptySet DEF CountInv
<1>4. OrderInv
  <2>1. \A t \in Tasks : tpc[t] # "none" <=> t <= 0
    BY DEF Tasks
  <2> QED
    BY <2>1, FiniteTasks DEF OrderInv
<1>5. SubmitInv
  BY DEF SubmitInv
<1>6. EndInv
  BY DEF EndInv
<1> QED
  BY <1>1, <1>3, <1>4, <1>5, <1>6 DEF IInv

(* A submission by one who holds the pool takes the next task into flight, *)
(* where nobody else's is.                                                 *)
LEMMA SubmitStep ==
  ASSUME IInv, NEW h \in Threads, Submit(h)
  PROVE  IInv'
<1> DEFINE t == NextTask
<1>1. /\ t \in Tasks /\ t \in Threads
      /\ tpc[t] = "none" /\ t \notin InFlight /\ submit[t].at = "no"
  <2>1. t \in Tasks /\ t \in Threads
    BY DEF Submit, Threads
  <2>2. tpc[t] = "none"
    BY <2>1, NextIsFresh, FiniteTasks DEF IInv, Tasks
  <2> QED
    BY <2>1, <2>2, FiniteTasks DEF IInv, SubmitInv, HoldsPool, InFlight, Flying
<1>2. /\ tpc' \in [Tasks -> Places]
      /\ \A u \in Tasks : tpc'[u] = IF u = t THEN "made" ELSE tpc[u]
      /\ InFlight' = InFlight \union {t}
  BY <1>1, TaskMoves DEF Submit, IInv, Places, Flying
<1>3. \A g \in Threads : submit'[g] =
        IF g = h THEN [at |-> "counted", task |-> t] ELSE submit[g]
  BY DEF Submit, IInv, Types
<1>4. Types'
  BY <1>1, <1>2, FiniteTasks DEF IInv, Types, Submit, Tasks
<1>5. CountInv'
  BY <1>1, <1>2, CountMoves DEF IInv, CountInv, Submit, Counted
<1>6. OrderInv'
  <2>1. \A u \in Tasks : tpc'[u] # "none" <=> u <= t
    BY <1>1, <1>2, NextIsFresh, FiniteTasks DEF IInv, Tasks
  <2> QED
    BY <1>1, <2>1, FiniteTasks DEF OrderInv, Tasks
<1>7. \A g \in Callers : g \in refs' <=> g \in refs
  BY <1>1, FiniteTasks DEF Submit
<1>8. SubmitInv'
  <2> SUFFICES ASSUME NEW g \in Threads
               PROVE  /\ submit'[g].at # "no" => HoldsPool(g)'
                      /\ submit'[g].at = "counted" =>
                           /\ submit'[g].task \in Tasks
                           /\ tpc'[submit'[g].task] = "made"
                           /\ \A f \in Threads \ {g} :
                                submit'[f].at = "counted" =>
                                  submit'[f].task # submit'[g].task
    BY DEF SubmitInv
  <2>1. HoldsPool(h) /\ h # t
    BY <1>1, FiniteTasks DEF Submit, MaySubmit, HoldsPool
  <2>2. submit'[g].at # "no" => HoldsPool(g)'
    BY <1>1, <1>2, <1>3, <1>7, <2>1 DEF IInv, SubmitInv, HoldsPool, Threads
  <2>3. \A f \in Threads : submit[f].at = "counted" =>
          /\ submit[f].task \in Tasks /\ submit[f].task # t
          /\ tpc'[submit[f].task] = "made"
    BY <1>1, <1>2 DEF IInv, SubmitInv
  <2> QED
    BY <1>1, <1>2, <1>3, <2>2, <2>3 DEF IInv, SubmitInv
<1>9. EndInv'
  <2>1. pool = "alive" \/ (InFlight # {} /\ refs = {})
    BY DEF Submit, MaySubmit, IInv, EndInv, InFlight, Flying, Threads
  <2>2. pool # "alive" => refs' = {}
    BY <2>1 DEF Submit
  <2> QED
    BY <2>1, <2>2 DEF IInv, EndInv, Submit
<1> QED
  BY <1>4, <1>5, <1>6, <1>8, <1>9 DEF IInv

(* The thread is there, or it is not and the count is rolled back.         *)
LEMMA SubmissionStep ==
  ASSUME IInv, NEW h \in Threads, Submission(h)
  PROVE  IInv'
<1>1. CASE Spawn(h) \/ SpawnFails(h)
  <2> DEFINE t == submit[h].task
             place == IF Spawn(h) THEN "spawned" ELSE "over"
             after == IF Spawn(h) THEN "no" ELSE "tell"
  <2>1. /\ t \in Tasks /\ tpc[t] = "made" /\ t \in InFlight
        /\ submit[h].at = "counted" /\ HoldsPool(h)
        /\ t # h /\ submit[t].at = "no"
    BY <1>1, FiniteTasks
    DEF Spawn, SpawnFails, IInv, SubmitInv, HoldsPool, InFlight, Flying, Threads
  <2>2. /\ tpc' \in [Tasks -> Places]
        /\ \A u \in Tasks : tpc'[u] = IF u = t THEN place ELSE tpc[u]
        /\ place \in Flying => InFlight' = InFlight \union {t}
        /\ place \notin Flying => InFlight' = InFlight \ {t}
    <3>1. GoTask(t, place)
      BY <1>1 DEF Spawn, SpawnFails
    <3>2. place \in Places
      BY DEF Places, Flying
    <3> QED
      BY <2>1, <3>1, <3>2, TaskMoves DEF IInv
  <2>3. \A g \in Threads : /\ g # h => submit'[g] = submit[g]
                           /\ submit'[h].at = after
    BY <1>1 DEF Spawn, SpawnFails, GoSubmit, IInv, Types, NotSubmitting
  <2>4. Types'
    BY <1>1, <2>2, FiniteTasks
    DEF IInv, Types, Spawn, SpawnFails, GoSubmit, NotSubmitting
  <2>5. CountInv'
    <3>1. CASE Spawn(h)
      BY <2>1, <2>2, <3>1, CountMoves DEF IInv, CountInv, Spawn, Flying
    <3>2. CASE ~Spawn(h)
      BY <1>1, <2>1, <2>2, <3>2, CountMoves DEF IInv, CountInv, SpawnFails, Flying
    <3> QED
      BY <3>1, <3>2
  <2>6. OrderInv'
    BY <2>1, <2>2, OrderKept DEF IInv
  <2>7. \A g \in Callers : g \in refs' <=> g \in refs
    BY <1>1, <2>1, FiniteTasks DEF Spawn, SpawnFails
  <2>8. SubmitInv'
    <3> SUFFICES ASSUME NEW g \in Threads
                 PROVE  /\ submit'[g].at # "no" => HoldsPool(g)'
                        /\ submit'[g].at = "counted" =>
                             /\ submit'[g].task \in Tasks
                             /\ tpc'[submit'[g].task] = "made"
                             /\ \A f \in Threads \ {g} :
                                  submit'[f].at = "counted" =>
                                    submit'[f].task # submit'[g].task
      BY DEF SubmitInv
    <3>1. submit'[g].at # "no" => HoldsPool(g)'
      BY <2>1, <2>2, <2>3, <2>7 DEF IInv, SubmitInv, HoldsPool, Threads
    <3>2. submit'[g].at = "counted" => g # h /\ submit'[g] = submit[g]
      BY <2>3
    <3>3. submit'[g].at = "counted" => submit[g].task \in Tasks \ {t}
                                       /\ tpc[submit[g].task] = "made"
      BY <2>1, <3>2 DEF IInv, SubmitInv
    <3> QED
      BY <2>2, <2>3, <3>1, <3>2, <3>3 DEF IInv, SubmitInv
  <2>9. EndInv'
    BY <1>1, <2>1, <2>2 DEF IInv, EndInv, Spawn, SpawnFails
  <2> QED
    BY <2>4, <2>5, <2>6, <2>8, <2>9 DEF IInv
<1>2. CASE TellRolledBack(h)
  <2>1. \A g \in Threads : /\ g # h => submit'[g] = submit[g]
                           /\ submit'[h].at = "no"
    BY <1>2 DEF TellRolledBack, IInv, Types, NotSubmitting
  <2>2. SubmitInv'
    BY <1>2, <2>1 DEF IInv, SubmitInv, HoldsPool, TellRolledBack
  <2>3. Types' /\ CountInv' /\ OrderInv' /\ EndInv'
    BY <1>2, FiniteTasks DEF IInv, Types, CountInv, OrderInv, EndInv, InFlight,
                             TellRolledBack, NotSubmitting
  <2> QED
    BY <2>2, <2>3 DEF IInv
<1> QED
  BY <1>1, <1>2 DEF Submission

-----------------------------------------------------------------------------
(* A task that runs stays in flight until it has left, and is not in a     *)
(* submission when it goes from one place to the next.                     *)
LEMMA TaskStepHolds ==
  ASSUME IInv, NEW t \in Tasks, TaskThread(t)
  PROVE  IInv'
<1>1. CASE Start(t) \/ EndBody(t) \/ ThrowBody(t) \/ Latch(t)
  <2>1. /\ tpc[t] \in Flying \ {"made"} /\ submit[t].at = "no"
        /\ UNCHANGED <<refs, pool, destroyer, inFlight, submit>>
    BY <1>1, FiniteTasks DEF Start, EndBody, ThrowBody, Latch, AtTask, Flying,
                             IInv, SubmitInv, HoldsPool, Threads
  <2>2. PICK place \in Flying : GoTask(t, place)
    BY <1>1 DEF Start, EndBody, ThrowBody, Latch, Flying
  <2>3. /\ tpc' \in [Tasks -> Places]
        /\ \A u \in Tasks : tpc'[u] = IF u = t THEN place ELSE tpc[u]
        /\ InFlight' = InFlight
    <3>1. InFlight \union {t} = InFlight
      BY <2>1 DEF InFlight
    <3>2. place \in Places /\ Types
      BY DEF Places, IInv
    <3> QED
      BY <2>2, <3>1, <3>2, TaskMoves
  <2>4. Types' /\ CountInv' /\ EndInv'
    BY <2>1, <2>3 DEF IInv, Types, CountInv, EndInv
  <2>5. OrderInv'
    BY <2>1, <2>3, OrderKept DEF IInv, Flying
  <2>6. SubmitInv'
    BY <2>1, <2>3, SubmitKept DEF IInv
  <2> QED
    BY <2>4, <2>5, <2>6 DEF IInv
<1>2. CASE LeaveFlight(t)
  <2>1. /\ tpc[t] = "leave" /\ submit[t].at = "no" /\ t \in InFlight
        /\ inFlight' = inFlight - 1
        /\ UNCHANGED <<refs, pool, destroyer, submit>>
    BY <1>2, FiniteTasks DEF LeaveFlight, AtTask, Flying, InFlight,
                             IInv, SubmitInv, HoldsPool, Threads
  <2>2. /\ tpc' \in [Tasks -> Places]
        /\ \A u \in Tasks : tpc'[u] = IF u = t THEN "reset" ELSE tpc[u]
        /\ InFlight' = InFlight \ {t}
    BY <1>2, TaskMoves DEF LeaveFlight, IInv, Places, Flying
  <2>3. CountInv'
    BY <2>1, <2>2, CountMoves DEF IInv, CountInv
  <2>4. Types' /\ EndInv'
    BY <2>1, <2>2 DEF IInv, Types, EndInv
  <2>5. OrderInv'
    BY <2>1, <2>2, OrderKept DEF IInv
  <2>6. SubmitInv'
    BY <2>1, <2>2, SubmitKept DEF IInv
  <2> QED
    BY <2>3, <2>4, <2>5, <2>6 DEF IInv
<1>3. CASE ResetClosure(t)
  <2>1. /\ tpc[t] = "reset" /\ submit[t].at = "no" /\ t \notin InFlight
        /\ t \in Threads /\ t \notin Callers
        /\ UNCHANGED <<inFlight, submit>> /\ Drop(t)
    BY <1>3, FiniteTasks DEF ResetClosure, AtTask, Flying, InFlight,
                             IInv, SubmitInv, HoldsPool, Threads
  <2>2. /\ tpc' \in [Tasks -> Places]
        /\ \A u \in Tasks : tpc'[u] = IF u = t THEN "over" ELSE tpc[u]
        /\ InFlight' = InFlight
    <3>1. InFlight' = InFlight \ {t}
      BY <1>3, TaskMoves DEF ResetClosure, IInv, Places, Flying
    <3> QED
      BY <1>3, <2>1, <3>1, TaskMoves DEF ResetClosure, IInv, Places
  <2>3. Types' /\ CountInv'
    BY <2>1, <2>2 DEF IInv, Types, CountInv, Drop
  <2>4. EndInv'
    BY <2>1, <2>2 DEF IInv, EndInv, Drop
  <2>5. OrderInv'
    BY <2>1, <2>2, OrderKept DEF IInv
  <2>6. SubmitInv'
    BY <2>1, <2>2, SubmitKept DEF IInv, Drop
  <2> QED
    BY <2>3, <2>4, <2>5, <2>6 DEF IInv
<1> QED
  BY <1>1, <1>2, <1>3 DEF TaskThread

(* A caller drops its reference outside of submissions; with the last one  *)
(* the destructor begins.                                                  *)
LEMMA DropStep ==
  ASSUME IInv, NEW h \in Callers, DropByCaller(h)
  PROVE  IInv'
<1>1. Types' /\ CountInv' /\ OrderInv' /\ EndInv'
  BY DEF IInv, Types, CountInv, OrderInv, EndInv, InFlight, DropByCaller, Drop, Threads
<1>2. SubmitInv'
  BY SubmitKept DEF IInv, DropByCaller, Drop
<1> QED
  BY <1>1, <1>2 DEF IInv

(* The destructor is past its look only if it has seen the count at zero,  *)
(* and nobody is left who could make it grow again.                        *)
LEMMA DestroyStep ==
  ASSUME IInv, Draining \/ Destroyed
  PROVE  IInv'
<1>1. UNCHANGED <<refs, inFlight, tpc, submit>> /\ InFlight' = InFlight
  BY DEF Draining, DrainLock, DrainCheck, DrainWait, DrainWake, Destroyed, InFlight
<1>2. Types'
  BY <1>1 DEF IInv, Types, Draining, DrainLock, DrainCheck, DrainWait, DrainWake,
              Destroyed, GoDestroyer, NoDestroyer
<1>3. CountInv' /\ OrderInv'
  BY <1>1 DEF IInv, CountInv, OrderInv
<1>4. SubmitInv'
  BY <1>1, SubmitKept DEF IInv
<1>5. EndInv'
  <2>1. CASE DrainCheck
    <3>1. inFlight = 0 => InFlight = {}
      BY CountMoves DEF IInv, CountInv
    <3>2. destroyer' = [destroyer EXCEPT !.at = IF inFlight = 0 THEN "drained" ELSE "wait"]
          /\ destroyer.at = "check" /\ UNCHANGED pool
      BY <2>1 DEF DrainCheck, GoDestroyer
    <3> QED
      BY <1>1, <3>1, <3>2 DEF IInv, EndInv, Types
  <2>2. CASE DrainLock \/ DrainWait \/ DrainWake
    BY <1>1, <2>2 DEF IInv, EndInv, Types, DrainLock, DrainWait, DrainWake, GoDestroyer
  <2>3. CASE Destroyed
    BY <1>1, <2>3 DEF IInv, EndInv, Destroyed, NoDestroyer
  <2> QED
    BY <2>1, <2>2, <2>3 DEF Draining
<1> QED
  BY <1>2, <1>3, <1>4, <1>5 DEF IInv

-----------------------------------------------------------------------------
(* The counting of detached tasks holds at every moment, whatever else is  *)
(* done with the pool.                                                     *)
THEOREM Counting == Spec => []IInv
<1>1. ASSUME IInv, [Next]_vars PROVE IInv'
  <2>1. CASE UNCHANGED detachedVars
    BY <1>1, <2>1 DEF IInv, Types, CountInv, OrderInv, SubmitInv, EndInv, InFlight,
                      HoldsPool, detachedVars
  <2>2. ASSUME NEW t \in Tasks, StopTask(t) PROVE IInv'
    BY <1>1, <2>2 DEF IInv, Types, CountInv, OrderInv, SubmitInv, EndInv, InFlight,
                      HoldsPool, StopTask
  <2>3. CASE DetachedStep
    BY <1>1, <2>2, <2>3, SubmitStep, SubmissionStep, TaskStepHolds, DropStep,
       DestroyStep DEF DetachedStep
  <2> QED
    BY <1>1, <2>1, <2>3, OnlyDetached
<1> QED
  BY <1>1, InitHolds, PTL DEF Spec

(* Nobody is in a pool that is gone, and nobody has a reference to it, for *)
(* any number of callers and tasks: ~ThreadPool waits for the count that   *)
(* submitDetached has raised before the thread was there.                  *)
THEOREM Outlived == Spec => []NoUseAfterDestruction
<1>1. IInv => NoUseAfterDestruction
  BY DEF IInv, EndInv, SubmitInv, HoldsPool, NoUseAfterDestruction, InFlight, Flying,
         TasksInPool, SubmittersInPool, Threads
<1> QED
  BY <1>1, Counting, PTL

-----------------------------------------------------------------------------
(* The drivers that are in the resume of a coroutine, or on the way there, *)
(* and the entries of the queues: what a gate counts.  An entry has its    *)
(* place in the queue, the one being served the place before the first.    *)
Inside == {"body", "coroutine", "unwind"}
DriverPlaces == Inside \union {"idle", "notify", "ended"}
WaiterPlaces == {"out", "coroutine", "look", "wait", "asleep"}

Entry(w, d, i) == IF i = 0 THEN dpc[d] \in Inside /\ serves[d] = w
                           ELSE i <= Len(queue[d]) /\ queue[d][i] = w
Entries(w) == {e \in Drivers \X Nat : Entry(w, e[1], e[2])}

WaitTypes ==
  /\ gate \in [Waiters -> [done : BOOLEAN, count : Nat]]
  /\ queue \in [Drivers -> Seq(Waiters)]
  /\ dpc \in [Drivers -> DriverPlaces]
  /\ serves \in [Drivers -> Waiters \union {NoOne}]
  /\ \A d \in Drivers : dpc[d] \in Inside \union {"notify"} => serves[d] \in Waiters
  /\ wpc \in [Waiters -> WaiterPlaces]

(* A gate counts its entries, and a caller that has left has none. *)
GateInv ==
  \A w \in Waiters : /\ IsFiniteSet(Entries(w))
                     /\ gate[w].count = Cardinality(Entries(w))
                     /\ wpc[w] = "out" => Entries(w) = {}

WaitInv == WaitTypes /\ GateInv

WaitStep ==
  \/ \E h \in Waiters : (h \in refs /\ CallSyncWait(h)) \/ Waiter(h)
  \/ \E d \in Drivers : Driver(d)
  \/ EndProcess

(* Only what SyncWait does touches its state, and nothing of Detached's. *)
LEMMA OnlyWaits == [Next]_vars => (WaitStep /\ UNCHANGED detachedVars) \/ UNCHANGED waitVars
<1> SUFFICES ASSUME [Next]_vars
             PROVE  (WaitStep /\ UNCHANGED detachedVars) \/ UNCHANGED waitVars
  OBVIOUS
<1>1. CASE MakePool
  BY <1>1 DEF MakePool, OnConstruction, PinMaker
<1>2. ASSUME NEW p \in DOMAIN ping, HelperStep(p) PROVE UNCHANGED waitVars
  BY <1>2 DEF HelperStep, OnConstruction
<1>3. ASSUME NEW w \in Workers, WorkerStep(w) PROVE UNCHANGED waitVars
  BY <1>3 DEF WorkerStep, OnConstruction
<1>4. ASSUME NEW h \in Callers,
             \/ CallerStarts(h) \/ CallerDrops(h) \/ CallerStep(h)
             \/ CallPool(h) \/ BindSlot(h) \/ EndBind(h)
      PROVE  (WaitStep /\ UNCHANGED detachedVars) \/ UNCHANGED waitVars
  BY <1>4, LifetimeAssumption
  DEF CallerStarts, CallerDrops, CallerStep, CallPool, BindSlot, EndBind,
      OnDetached, OnWaits, OnPins, WaitStep, LifetimeAssumption
<1>5. CASE MakeOther \/ CallOther \/ EndOther
  BY <1>5 DEF MakeOther, CallOther, EndOther, OnPins
<1>6. ASSUME NEW t \in Tasks, TaskStep(t) \/ TaskSubmits(t) \/ OnDetached(StopTask(t))
      PROVE  UNCHANGED waitVars
  BY <1>6 DEF TaskStep, TaskSubmits, OnDetached
<1>7. ASSUME NEW d \in Drivers, DriverStep(d) PROVE WaitStep /\ UNCHANGED detachedVars
  BY <1>7 DEF DriverStep, OnWaits, WaitStep
<1>8. CASE DestroyPool
  BY <1>8 DEF DestroyPool, OnDetached
<1>9. CASE OnWaits(EndProcess) \/ AllOver \/ UNCHANGED vars
  BY <1>9 DEF OnWaits, AllOver, vars, WaitStep
<1> QED
  BY <1>1, <1>2, <1>3, <1>4, <1>5, <1>6, <1>7, <1>8, <1>9 DEF Next

-----------------------------------------------------------------------------
(* Sequences and counting. *)
LEMMA AnAppend ==
  ASSUME NEW S, NEW s \in Seq(S), NEW x \in S
  PROVE  /\ Append(s, x) \in Seq(S) /\ Len(s) \in Nat
         /\ Len(Append(s, x)) = Len(s) + 1
         /\ \A i \in 1 .. Len(s) : Append(s, x)[i] = s[i]
         /\ Append(s, x)[Len(s) + 1] = x
  OBVIOUS

(* A queue without its first entry. *)
LEMMA ATail ==
  ASSUME NEW S, NEW s \in Seq(S), s # <<>>
  PROVE  /\ Tail(s) \in Seq(S) /\ Len(s) \in Nat \ {0} /\ Len(Tail(s)) = Len(s) - 1
         /\ Head(s) \in S /\ Head(s) = s[1]
         /\ \A i \in 1 .. Len(s) - 1 : Tail(s)[i] = s[i + 1]
  OBVIOUS

(* What is the same but for its names is as many. *)
LEMMA SameNumber ==
  ASSUME NEW S, NEW T, IsFiniteSet(S), NEW f \in [S -> T],
         \A x, y \in S : f[x] = f[y] => x = y,
         \A y \in T : \E x \in S : f[x] = y
  PROVE  IsFiniteSet(T) /\ Cardinality(T) = Cardinality(S)
<1>1. f \in Bijection(S, T)
  BY DEF Bijection, Injection, Surjection, IsInjective
<1>2. ExistsBijection(S, T)
  BY <1>1 DEF ExistsBijection
<1> QED
  BY <1>2, FS_Bijection

(* Where the entries of a waiter stay what they are, so do they all. *)
LEMMA EntriesKept ==
  ASSUME NEW w, \A d \in Drivers : \A i \in Nat : Entry(w, d, i)' <=> Entry(w, d, i)
  PROVE  Entries(w)' = Entries(w)
  BY DEF Entries

(* What leaves the entries and the counts alone, and lets nobody leave     *)
(* that has entries, keeps the gates right.                                *)
LEMMA GateKept ==
  ASSUME GateInv,
         \A w \in Waiters : /\ Entries(w)' = Entries(w)
                            /\ gate'[w].count = gate[w].count
                            /\ wpc'[w] = "out" => Entries(w) = {}
  PROVE  GateInv'
  BY DEF GateInv

-----------------------------------------------------------------------------
(* An entry joins those of a gate and is counted.                          *)
LEMMA SuspendHolds ==
  ASSUME WaitInv, NEW w \in Waiters, NEW e \in Drivers, Suspends(w, e),
         \A v \in Waiters, d \in Drivers : Entry(v, d, 0)' <=> Entry(v, d, 0),
         \A v \in Waiters : wpc'[v] = "out" => wpc[v] = "out" /\ v # w
  PROVE  /\ gate' \in [Waiters -> [done : BOOLEAN, count : Nat]]
         /\ queue' \in [Drivers -> Seq(Waiters)]
         /\ GateInv'
<1> DEFINE n == Len(queue[e])
<1>1. /\ n \in Nat
      /\ queue' \in [Drivers -> Seq(Waiters)]
      /\ \A d \in Drivers : d # e => queue'[d] = queue[d]
      /\ queue'[e] = Append(queue[e], w)
      /\ Len(queue'[e]) = n + 1
      /\ \A i \in 1 .. n : queue'[e][i] = queue[e][i]
      /\ queue'[e][n + 1] = w
  <2>1. queue[e] \in Seq(Waiters) /\ queue \in [Drivers -> Seq(Waiters)]
    BY DEF WaitInv, WaitTypes
  <2>2. queue' = [queue EXCEPT ![e] = Append(queue[e], w)]
    BY DEF Suspends
  <2>3. Append(queue[e], w) \in Seq(Waiters)
    BY <2>1
  <2> QED
    BY <2>1, <2>2, <2>3, AnAppend
<1>2. /\ gate' \in [Waiters -> [done : BOOLEAN, count : Nat]]
      /\ \A v \in Waiters : v # w => gate'[v].count = gate[v].count
      /\ gate'[w].count = gate[w].count + 1
  <2>1. /\ gate \in [Waiters -> [done : BOOLEAN, count : Nat]]
        /\ gate' = [gate EXCEPT ![w].count = @ + 1]
    BY DEF WaitInv, WaitTypes, Suspends
  <2>2. /\ gate'[w] = [gate[w] EXCEPT !.count = @ + 1]
        /\ \A v \in Waiters : v # w => gate'[v] = gate[v]
    BY <2>1
  <2>3. gate'[w] \in [done : BOOLEAN, count : Nat] /\ gate'[w].count = gate[w].count + 1
    BY <2>1, <2>2
  <2> QED
    BY <2>1, <2>2, <2>3
<1>3. \A v \in Waiters, d \in Drivers, i \in Nat :
        Entry(v, d, i)' <=> Entry(v, d, i) \/ (v = w /\ d = e /\ i = n + 1)
  <2> SUFFICES ASSUME NEW v \in Waiters, NEW d \in Drivers, NEW i \in Nat
               PROVE  Entry(v, d, i)' <=> Entry(v, d, i) \/ (v = w /\ d = e /\ i = n + 1)
    OBVIOUS
  <2>1. CASE i = 0
    BY <1>1, <2>1
  <2>2. CASE i # 0 /\ d # e
    BY <1>1, <2>2 DEF Entry
  <2>3. CASE i # 0 /\ d = e
    <3>1. i \in 1 .. n \/ i = n + 1 \/ i > n + 1
      BY <1>1, <2>3
    <3>2. CASE i \in 1 .. n
      BY <1>1, <2>3, <3>2, SMTT(30) DEF Entry
    <3>3. CASE i = n + 1
      BY <1>1, <2>3, <3>3 DEF Entry
    <3>4. CASE i > n + 1
      BY <1>1, <2>3, <3>4 DEF Entry
    <3> QED
      BY <3>1, <3>2, <3>3, <3>4
  <2> QED
    BY <2>1, <2>2, <2>3
<1>4. \A v \in Waiters : v # w => Entries(v)' = Entries(v)
  BY <1>3 DEF Entries
<1>5. Entries(w)' = Entries(w) \union {<<e, n + 1>>} /\ <<e, n + 1>> \notin Entries(w)
  <2>1. ~Entry(w, e, n + 1) /\ n + 1 \in Nat
    BY <1>1 DEF Entry
  <2>2. ASSUME NEW x \in Drivers \X Nat
        PROVE  Entry(w, x[1], x[2])' <=> Entry(w, x[1], x[2]) \/ x = <<e, n + 1>>
    BY <1>3
  <2> HIDE DEF n
  <2> QED
    BY <2>1, <2>2 DEF Entries
<1>6. GateInv'
  <2> SUFFICES ASSUME NEW v \in Waiters
               PROVE  /\ IsFiniteSet(Entries(v)')
                      /\ gate'[v].count = Cardinality(Entries(v)')
                      /\ wpc'[v] = "out" => Entries(v)' = {}
    BY DEF GateInv
  <2>1. CASE v # w
    BY <1>2, <1>4, <2>1 DEF WaitInv, GateInv
  <2>2. CASE v = w
    <3>1. IsFiniteSet(Entries(w)) /\ gate[w].count = Cardinality(Entries(w))
      BY DEF WaitInv, GateInv
    <3>2. /\ IsFiniteSet(Entries(w)')
          /\ Cardinality(Entries(w)') = Cardinality(Entries(w)) + 1
      BY <1>5, <3>1, FS_AddElement
    <3> QED
      BY <1>2, <2>2, <3>1, <3>2
  <2> QED
    BY <2>1, <2>2
<1> QED
  BY <1>1, <1>2, <1>6

(* A driver takes the first of its queue: its entries move up by one       *)
(* place.                                                                  *)
LEMMA TakeNextHolds ==
  ASSUME WaitInv, NEW d \in Drivers, TakeNext(d)
  PROVE  WaitInv'
<1>1. /\ Tail(queue[d]) \in Seq(Waiters) /\ Len(queue[d]) \in Nat \ {0}
      /\ Len(Tail(queue[d])) = Len(queue[d]) - 1
      /\ Head(queue[d]) \in Waiters /\ Head(queue[d]) = queue[d][1]
      /\ \A i \in 1 .. Len(queue[d]) - 1 : Tail(queue[d])[i] = queue[d][i + 1]
  <2>1. queue[d] \in Seq(Waiters) /\ queue[d] # <<>>
    BY DEF WaitInv, WaitTypes, TakeNext
  <2> QED
    BY <2>1, ATail
<1>2. /\ queue' \in [Drivers -> Seq(Waiters)]
      /\ dpc' \in [Drivers -> DriverPlaces]
      /\ serves' \in [Drivers -> Waiters \union {NoOne}]
      /\ \A e \in Drivers : e # d => /\ queue'[e] = queue[e]
                                     /\ dpc'[e] = dpc[e] /\ serves'[e] = serves[e]
      /\ queue'[d] = Tail(queue[d]) /\ dpc'[d] = "body" /\ dpc[d] = "idle"
      /\ serves'[d] = queue[d][1]
      /\ UNCHANGED <<gate, wpc>>
  BY <1>1 DEF WaitInv, WaitTypes, TakeNext, GoDriver, DriverPlaces, Inside
<1>3. WaitTypes'
  BY <1>1, <1>2 DEF WaitInv, WaitTypes
<1>4. \A w \in Waiters, i \in Nat : /\ Entry(w, d, i)' <=> Entry(w, d, i + 1)
                                    /\ ~Entry(w, d, 0)
  <2> SUFFICES ASSUME NEW w \in Waiters, NEW i \in Nat
               PROVE  Entry(w, d, i)' <=> Entry(w, d, i + 1)
    BY <1>2 DEF Entry, Inside
  <2>1. CASE i = 0
    BY <1>1, <1>2, <2>1 DEF Entry, Inside
  <2>2. CASE i \in 1 .. Len(queue[d]) - 1
    BY <1>1, <1>2, <2>2 DEF Entry
  <2>3. CASE i > Len(queue[d]) - 1 /\ i # 0
    BY <1>1, <1>2, <2>3 DEF Entry
  <2> QED
    BY <1>1, <2>1, <2>2, <2>3
<1>5. \A w \in Waiters, e \in Drivers, i \in Nat :
        e # d => (Entry(w, e, i)' <=> Entry(w, e, i))
  BY <1>2 DEF Entry
<1>6. ASSUME NEW w \in Waiters, IsFiniteSet(Entries(w))
      PROVE  IsFiniteSet(Entries(w)') /\ Cardinality(Entries(w)') = Cardinality(Entries(w))
  <2> DEFINE Up(x) == IF x[1] = d THEN <<d, x[2] - 1>> ELSE x
             f == [x \in Entries(w) |-> Up(x)]
  <2>1. ASSUME NEW x \in Entries(w)
        PROVE  /\ x \in Drivers \X Nat /\ (x[1] = d => x[2] \in Nat \ {0})
               /\ Up(x) \in Entries(w)'
    <3>1. x \in Drivers \X Nat /\ Entry(w, x[1], x[2])
      BY <2>1 DEF Entries
    <3>2. CASE x[1] # d
      BY <1>5, <3>1, <3>2 DEF Entries
    <3>3. CASE x[1] = d
      <4>1. x[2] \in Nat \ {0}
        BY <1>4, <3>1, <3>3
      <4>2. PICK i \in Nat : x[2] = i + 1
        BY <4>1
      <4>3. Entry(w, d, i)'
        BY <1>4, <3>1, <3>3, <4>2
      <4>4. Up(x) = <<d, i>>
        BY <3>3, <4>2
      <4> QED
        BY <3>1, <4>1, <4>3, <4>4 DEF Entries
    <3> QED
      BY <3>2, <3>3
  <2>2. f \in [Entries(w) -> Entries(w)']
    BY <2>1
  <2>3. \A x, y \in Entries(w) : f[x] = f[y] => x = y
    <3> SUFFICES ASSUME NEW x \in Entries(w), NEW y \in Entries(w), Up(x) = Up(y)
                 PROVE  x = y
      OBVIOUS
    <3> QED
      BY <2>1
  <2>4. \A y \in Entries(w)' : \E x \in Entries(w) : f[x] = y
    <3> SUFFICES ASSUME NEW y \in Entries(w)'
                 PROVE  \E x \in Entries(w) : Up(x) = y
      OBVIOUS
    <3>1. y \in Drivers \X Nat /\ Entry(w, y[1], y[2])'
      BY DEF Entries
    <3>2. CASE y[1] # d
      <4>1. y \in Entries(w)
        BY <1>5, <3>1, <3>2 DEF Entries
      <4> QED
        BY <3>2, <4>1
    <3>3. CASE y[1] = d
      <4>1. <<d, y[2] + 1>> \in Entries(w)
        BY <1>4, <3>1, <3>3 DEF Entries
      <4>2. Up(<<d, y[2] + 1>>) = y
        BY <3>1, <3>3
      <4> QED
        BY <4>1, <4>2
    <3> QED
      BY <3>2, <3>3
  <2> HIDE DEF f
  <2> QED
    BY <1>6, <2>2, <2>3, <2>4, SameNumber
<1>7. ASSUME NEW w \in Waiters, Entries(w) = {} PROVE Entries(w)' = {}
  BY <1>6, <1>7, FS_EmptySet
<1>8. GateInv'
  BY <1>2, <1>6, <1>7 DEF WaitInv, GateInv
<1> QED
  BY <1>3, <1>8 DEF WaitInv

(* The driver that leaves is not counted any more, and had no other entry  *)
(* at that place.                                                          *)
LEMMA LeaveResumeHolds ==
  ASSUME WaitInv, NEW d \in Drivers, LeaveResume(d)
  PROVE  WaitInv'
<1> DEFINE w == serves[d]
<1>1. w \in Waiters /\ dpc[d] = "unwind" /\ Entry(w, d, 0) /\ <<d, 0>> \in Entries(w)
  BY DEF WaitInv, WaitTypes, LeaveResume, Entry, Entries, Inside
<1>2. /\ IsFiniteSet(Entries(w)) /\ gate[w].count = Cardinality(Entries(w))
      /\ IsFiniteSet(Entries(w) \ {<<d, 0>>})
      /\ Cardinality(Entries(w) \ {<<d, 0>>}) = gate[w].count - 1
      /\ gate[w].count - 1 \in Nat
  <2>1. IsFiniteSet(Entries(w)) /\ gate[w].count = Cardinality(Entries(w))
    BY <1>1 DEF WaitInv, GateInv
  <2>2. /\ IsFiniteSet(Entries(w) \ {<<d, 0>>})
        /\ Cardinality(Entries(w) \ {<<d, 0>>}) = Cardinality(Entries(w)) - 1
    BY <1>1, <2>1, FS_RemoveElement
  <2>3. Cardinality(Entries(w) \ {<<d, 0>>}) \in Nat
    BY <2>2, FS_CardinalityType
  <2> QED
    BY <2>1, <2>2, <2>3
<1>3. /\ gate' \in [Waiters -> [done : BOOLEAN, count : Nat]]
      /\ \A v \in Waiters : v # w => gate'[v].count = gate[v].count
      /\ gate'[w].count = gate[w].count - 1
  <2>1. /\ gate \in [Waiters -> [done : BOOLEAN, count : Nat]]
        /\ gate' = [gate EXCEPT ![w].count = @ - 1]
    BY DEF WaitInv, WaitTypes, LeaveResume
  <2>2. /\ gate'[w] = [gate[w] EXCEPT !.count = @ - 1]
        /\ \A v \in Waiters : v # w => gate'[v] = gate[v]
        /\ gate' = [gate EXCEPT ![w] = gate'[w]]
    BY <1>1, <2>1
  <2>3. gate'[w] \in [done : BOOLEAN, count : Nat] /\ gate'[w].count = gate[w].count - 1
    BY <1>1, <1>2, <2>1, <2>2
  <2> QED
    BY <2>1, <2>2, <2>3
<1>4. /\ dpc' \in [Drivers -> DriverPlaces]
      /\ serves' \in [Drivers -> Waiters \union {NoOne}]
      /\ \A e \in Drivers : e # d => dpc'[e] = dpc[e] /\ serves'[e] = serves[e]
      /\ dpc'[d] \notin Inside
      /\ dpc'[d] = "notify" => serves'[d] = w
      /\ UNCHANGED <<queue, wpc>>
  BY <1>1 DEF WaitInv, WaitTypes, LeaveResume, GoDriver, DriverPlaces, Inside
<1>5. WaitTypes'
  <2>1. \A e \in Drivers : dpc'[e] \in Inside \union {"notify"} => serves'[e] \in Waiters
    BY <1>1, <1>4 DEF WaitInv, WaitTypes
  <2> QED
    BY <1>3, <1>4, <2>1 DEF WaitInv, WaitTypes
<1>6. \A v \in Waiters, e \in Drivers, i \in Nat :
        Entry(v, e, i)' <=> Entry(v, e, i) /\ ~(e = d /\ i = 0)
  BY <1>4 DEF Entry
<1>7. ASSUME NEW v \in Waiters
      PROVE  Entries(v)' = IF v = w THEN Entries(v) \ {<<d, 0>>} ELSE Entries(v)
  <2>1. ASSUME NEW x \in Drivers \X Nat
        PROVE  Entry(v, x[1], x[2])' <=> Entry(v, x[1], x[2]) /\ x # <<d, 0>>
    BY <1>6
  <2>2. v # w => <<d, 0>> \notin Entries(v)
    BY <1>1 DEF Entries, Entry
  <2> HIDE DEF w
  <2> QED
    BY <2>1, <2>2 DEF Entries
<1>8. GateInv'
  <2> SUFFICES ASSUME NEW v \in Waiters
               PROVE  /\ IsFiniteSet(Entries(v)')
                      /\ gate'[v].count = Cardinality(Entries(v)')
                      /\ wpc'[v] = "out" => Entries(v)' = {}
    BY DEF GateInv
  <2>1. wpc[v] = "out" => Entries(v)' = {}
    BY <1>7 DEF WaitInv, GateInv
  <2>2. IsFiniteSet(Entries(v)') /\ gate'[v].count = Cardinality(Entries(v)')
    BY <1>2, <1>3, <1>7 DEF WaitInv, GateInv
  <2> QED
    BY <1>4, <2>1, <2>2
<1> QED
  BY <1>5, <1>8 DEF WaitInv

(* A coroutine that is over leaves nothing to be resumed.                  *)
LEMMA FinishHolds ==
  ASSUME WaitInv, NEW w \in Waiters, Finishes(w),
         \A v \in Waiters, d \in Drivers : Entry(v, d, 0)' <=> Entry(v, d, 0),
         \A v \in Waiters : wpc'[v] = "out" => wpc[v] = "out",
         dpc' \in [Drivers -> DriverPlaces],
         serves' \in [Drivers -> Waiters \union {NoOne}],
         \A d \in Drivers : dpc'[d] \in Inside \union {"notify"} => serves'[d] \in Waiters,
         wpc' \in [Waiters -> WaiterPlaces]
  PROVE  WaitInv'
<1>1. /\ gate' \in [Waiters -> [done : BOOLEAN, count : Nat]]
      /\ \A v \in Waiters : gate'[v].count = gate[v].count
      /\ UNCHANGED queue
  <2>1. /\ gate \in [Waiters -> [done : BOOLEAN, count : Nat]]
        /\ gate' = [gate EXCEPT ![w].done = TRUE] /\ UNCHANGED queue
    BY DEF WaitInv, WaitTypes, Finishes
  <2>2. /\ gate'[w] = [gate[w] EXCEPT !.done = TRUE]
        /\ \A v \in Waiters : v # w => gate'[v] = gate[v]
        /\ gate' = [gate EXCEPT ![w] = gate'[w]]
    BY <2>1
  <2>3. gate[w] \in [done : BOOLEAN, count : Nat]
    BY <2>1
  <2>4. gate'[w] \in [done : BOOLEAN, count : Nat] /\ gate'[w].count = gate[w].count
    BY <2>2, <2>3
  <2> QED
    BY <2>1, <2>2, <2>4
<1>2. \A v \in Waiters, d \in Drivers, i \in Nat : Entry(v, d, i)' <=> Entry(v, d, i)
  BY <1>1 DEF Entry
<1>3. \A v \in Waiters : Entries(v)' = Entries(v)
  BY <1>2, EntriesKept
<1>4. GateInv'
  BY <1>1, <1>3, GateKept DEF WaitInv, GateInv
<1> QED
  BY <1>1, <1>4 DEF WaitInv, WaitTypes

(* The coroutine suspends or is over, on the caller's thread.              *)
LEMMA CoroutineOnWaiterHolds ==
  ASSUME WaitInv, NEW w \in Waiters, CoroutineOnWaiter(w)
  PROVE  WaitInv'
<1>1. /\ wpc' \in [Waiters -> WaiterPlaces] /\ wpc[w] = "coroutine"
      /\ \A v \in Waiters : wpc'[v] = "out" => wpc[v] = "out" /\ v # w
      /\ UNCHANGED <<dpc, serves>>
  BY DEF WaitInv, WaitTypes, CoroutineOnWaiter, GoWaiter, WaiterPlaces
<1>2. \A v \in Waiters, d \in Drivers : Entry(v, d, 0)' <=> Entry(v, d, 0)
  BY <1>1 DEF Entry
<1>3. CASE Finishes(w)
  <2>1. /\ \A v \in Waiters : wpc'[v] = "out" => wpc[v] = "out"
        /\ dpc' \in [Drivers -> DriverPlaces]
        /\ serves' \in [Drivers -> Waiters \union {NoOne}]
        /\ \A d \in Drivers : dpc'[d] \in Inside \union {"notify"} => serves'[d] \in Waiters
    BY <1>1 DEF WaitInv, WaitTypes
  <2> QED
    BY <1>1, <1>2, <1>3, <2>1, FinishHolds
<1>4. ASSUME NEW d \in Drivers, Suspends(w, d) PROVE WaitInv'
  <2>1. GateInv' /\ queue' \in [Drivers -> Seq(Waiters)]
        /\ gate' \in [Waiters -> [done : BOOLEAN, count : Nat]]
    BY <1>1, <1>2, <1>4, SuspendHolds
  <2> QED
    BY <1>1, <2>1 DEF WaitInv, WaitTypes
<1> QED
  BY <1>3, <1>4 DEF CoroutineOnWaiter

(* Or on a driver's, which stays inside until it has returned from there.  *)
LEMMA CoroutineOnDriverHolds ==
  ASSUME WaitInv, NEW d \in Drivers, CoroutineOnDriver(d)
  PROVE  WaitInv'
<1>1. /\ serves[d] \in Waiters /\ dpc[d] = "coroutine"
      /\ dpc' \in [Drivers -> DriverPlaces]
      /\ \A e \in Drivers : e # d => dpc'[e] = dpc[e]
      /\ dpc'[d] = "unwind"
      /\ UNCHANGED <<wpc, serves>>
  BY DEF WaitInv, WaitTypes, CoroutineOnDriver, GoDriver, DriverPlaces, Inside
<1>2. \A v \in Waiters, e \in Drivers : Entry(v, e, 0)' <=> Entry(v, e, 0)
  BY <1>1 DEF Entry, Inside
<1>3. \A e \in Drivers : dpc'[e] \in Inside \union {"notify"} => serves'[e] \in Waiters
  BY <1>1 DEF WaitInv, WaitTypes
<1>4. wpc[serves[d]] # "out"
  <2>1. <<d, 0>> \in Entries(serves[d])
    BY <1>1 DEF Entries, Entry, Inside
  <2> QED
    BY <1>1, <2>1 DEF WaitInv, GateInv
<1>5. ASSUME NEW e \in Drivers, Suspends(serves[d], e) PROVE WaitInv'
  <2>1. GateInv' /\ queue' \in [Drivers -> Seq(Waiters)]
        /\ gate' \in [Waiters -> [done : BOOLEAN, count : Nat]]
    BY <1>1, <1>2, <1>4, <1>5, SuspendHolds
  <2> QED
    BY <1>1, <1>3, <2>1 DEF WaitInv, WaitTypes
<1>6. CASE Finishes(serves[d])
  <2>1. \A v \in Waiters : wpc'[v] = "out" => wpc[v] = "out"
    BY <1>1
  <2> QED
    BY <1>1, <1>2, <1>3, <1>6, <2>1, FinishHolds DEF WaitInv, WaitTypes
<1> QED
  BY <1>5, <1>6 DEF CoroutineOnDriver

-----------------------------------------------------------------------------
(* A caller that returns has seen that the count is down to zero.          *)
LEMMA ReturnHolds ==
  ASSUME WaitInv, NEW w \in Waiters, ReturnFromWait(w)
  PROVE  WaitInv'
<1>1. /\ gate' \in [Waiters -> [done : BOOLEAN, count : Nat]]
      /\ \A v \in Waiters : gate'[v].count = gate[v].count
      /\ UNCHANGED <<queue, dpc, serves>>
  <2>1. /\ gate \in [Waiters -> [done : BOOLEAN, count : Nat]]
        /\ gate' = [gate EXCEPT ![w] = Closed] /\ gate[w].count = 0
        /\ UNCHANGED <<queue, dpc, serves>>
    BY DEF WaitInv, WaitTypes, ReturnFromWait, Released
  <2> QED
    BY <2>1 DEF Closed
<1>2. \A v \in Waiters : Entries(v)' = Entries(v)
  BY <1>1 DEF Entries, Entry
<1>3. Entries(w) = {}
  <2>1. gate[w].count = 0
    BY DEF ReturnFromWait, Released
  <2> QED
    BY <2>1, FS_EmptySet DEF WaitInv, GateInv
<1>4. /\ wpc' \in [Waiters -> WaiterPlaces]
      /\ \A v \in Waiters : v # w => wpc'[v] = wpc[v]
  BY DEF WaitInv, WaitTypes, ReturnFromWait, GoWaiter, WaiterPlaces
<1>5. GateInv'
  BY <1>1, <1>2, <1>3, <1>4, GateKept DEF WaitInv, GateInv
<1> QED
  BY <1>1, <1>4, <1>5 DEF WaitInv, WaitTypes

(* A caller that is called, looks or waits leaves the entries alone.       *)
LEMMA CallerHolds ==
  ASSUME WaitInv, NEW w \in Waiters, CallSyncWait(w) \/ Look(w) \/ Wait(w)
  PROVE  WaitInv'
<1>1. UNCHANGED <<gate, queue, dpc, serves>>
  BY DEF CallSyncWait, Look, Wait
<1>2. \A v \in Waiters : Entries(v)' = Entries(v)
  BY <1>1 DEF Entries, Entry
<1>3. /\ wpc' \in [Waiters -> WaiterPlaces]
      /\ \A v \in Waiters : wpc'[v] = "out" => wpc[v] = "out"
  BY DEF WaitInv, WaitTypes, CallSyncWait, Look, Wait, GoWaiter, WaiterPlaces
<1>4. GateInv'
  BY <1>1, <1>2, <1>3, GateKept DEF WaitInv, GateInv
<1> QED
  BY <1>1, <1>3, <1>4 DEF WaitInv, WaitTypes

(* A driver is inside as long as it resumes, and is not when it notifies   *)
(* or ends.                                                                *)
LEMMA DriverHolds ==
  ASSUME WaitInv, NEW d \in Drivers, Resume(d) \/ Notify(d) \/ EndDriver(d)
  PROVE  WaitInv'
<1>1. /\ dpc' \in [Drivers -> DriverPlaces]
      /\ serves' \in [Drivers -> Waiters \union {NoOne}]
      /\ \A e \in Drivers : e # d => dpc'[e] = dpc[e] /\ serves'[e] = serves[e]
      /\ dpc'[d] \in Inside <=> dpc[d] \in Inside
      /\ dpc[d] \in Inside => serves'[d] = serves[d] /\ serves[d] \in Waiters
      /\ dpc'[d] # "notify"
      /\ UNCHANGED <<gate, queue>>
  BY DEF WaitInv, WaitTypes, Resume, Notify, EndDriver, GoDriver, DriverPlaces, Inside
<1>2. /\ wpc' \in [Waiters -> WaiterPlaces]
      /\ \A v \in Waiters : wpc'[v] = "out" => wpc[v] = "out"
  <2>1. CASE Notify(d)
    <3>1. wpc \in [Waiters -> WaiterPlaces] /\ "look" \in WaiterPlaces
      BY DEF WaitInv, WaitTypes, WaiterPlaces
    <3>2. wpc' = wpc \/ wpc' = [wpc EXCEPT ![serves[d]] = "look"]
      BY <2>1 DEF Notify
    <3> QED
      BY <3>1, <3>2
  <2>2. CASE ~Notify(d)
    BY <2>2 DEF WaitInv, WaitTypes, Resume, EndDriver
  <2> QED
    BY <2>1, <2>2
<1>3. \A v \in Waiters, e \in Drivers, i \in Nat : Entry(v, e, i)' <=> Entry(v, e, i)
  BY <1>1 DEF Entry
<1>4. \A v \in Waiters : Entries(v)' = Entries(v)
  BY <1>3, EntriesKept
<1>5. GateInv'
  BY <1>1, <1>2, <1>4, GateKept DEF WaitInv, GateInv
<1>6. \A e \in Drivers : dpc'[e] \in Inside \union {"notify"} => serves'[e] \in Waiters
  BY <1>1 DEF WaitInv, WaitTypes
<1> QED
  BY <1>1, <1>2, <1>5, <1>6 DEF WaitInv, WaitTypes

(* Every step of Lifetime keeps the gates right. *)
LEMMA WaitStepHolds == WaitInv /\ [Next]_vars => WaitInv'
<1> SUFFICES ASSUME WaitInv, [Next]_vars PROVE WaitInv'
  OBVIOUS
<1>1. CASE UNCHANGED <<gate, queue, dpc, serves, wpc>>
  <2>1. \A v \in Waiters, d \in Drivers, i \in Nat : Entry(v, d, i)' <=> Entry(v, d, i)
    BY <1>1 DEF Entry
  <2>2. \A v \in Waiters : Entries(v)' = Entries(v)
    BY <2>1, EntriesKept
  <2>3. GateInv'
    BY <1>1, <2>2, GateKept DEF WaitInv, GateInv
  <2> QED
    BY <1>1, <2>3 DEF WaitInv, WaitTypes
<1>2. CASE UNCHANGED waitVars \/ EndProcess
  BY <1>1, <1>2 DEF waitVars, EndProcess
<1>3. ASSUME NEW h \in Waiters, CallSyncWait(h) \/ Waiter(h) PROVE WaitInv'
  BY <1>3, CoroutineOnWaiterHolds, ReturnHolds, CallerHolds DEF Waiter
<1>4. ASSUME NEW d \in Drivers, Driver(d) PROVE WaitInv'
  BY <1>4, TakeNextHolds, CoroutineOnDriverHolds, LeaveResumeHolds, DriverHolds DEF Driver
<1> QED
  BY <1>2, <1>3, <1>4, OnlyWaits DEF WaitStep

(* At first nobody waits and the gates are at zero. *)
LEMMA WaitInitHolds == Init => WaitInv
<1> SUFFICES ASSUME Init PROVE WaitInv
  OBVIOUS
<1>1. WaitTypes
  <2>1. <<>> \in Seq(Waiters)
    OBVIOUS
  <2> QED
    BY <2>1 DEF Init, SyncWaitInit, WaitTypes, Closed, DriverPlaces, WaiterPlaces, Inside
<1>2. \A w \in Waiters : Entries(w) = {}
  BY DEF Init, SyncWaitInit, Entries, Entry, Inside
<1>3. GateInv
  BY <1>2, FS_EmptySet DEF Init, SyncWaitInit, GateInv, Closed
<1> QED
  BY <1>1, <1>3 DEF WaitInv

-----------------------------------------------------------------------------
(* A caller's reference is dropped by itself, and by nobody else. *)
LEMMA RefsMove ==
  ASSUME IInv, [Next]_vars
  PROVE  \/ refs' \intersect Callers = refs \intersect Callers
         \/ \E g \in Callers : CallerDrops(g) /\ refs' = refs \ {g}
<1> DEFINE Same == refs' \intersect Callers = refs \intersect Callers
<1>1. UNCHANGED detachedVars => Same
  BY DEF detachedVars
<1>2. ASSUME NEW h \in Threads, Submit(h) PROVE Same
  BY <1>2, FiniteTasks DEF Submit
<1>3. ASSUME NEW h \in Threads, Submission(h) PROVE Same
  <2>1. CASE SpawnFails(h)
    <3>1. submit[h].task \in Tasks
      BY <2>1 DEF SpawnFails, IInv, SubmitInv
    <3> QED
      BY <2>1, <3>1, FiniteTasks DEF SpawnFails
  <2> QED
    BY <1>3, <2>1 DEF Submission, Spawn, TellRolledBack
<1>4. ASSUME NEW t \in Tasks, TaskThread(t) \/ StopTask(t) PROVE Same
  BY <1>4, FiniteTasks DEF TaskThread, Start, EndBody, ThrowBody, Latch, LeaveFlight,
                           ResetClosure, Drop, StopTask
<1>5. Draining \/ Destroyed => Same
  BY DEF Draining, DrainLock, DrainCheck, DrainWait, DrainWake, Destroyed
<1>6. ASSUME NEW h \in Callers,
             \/ CallerStarts(h) \/ CallerStep(h)
             \/ CallPool(h) \/ BindSlot(h) \/ EndBind(h)
      PROVE  Same
  BY <1>1, <1>2, <1>3, <1>6
  DEF CallerStarts, CallerStep, CallPool, BindSlot, EndBind,
      OnDetached, OnWaits, OnPins, Threads
<1>7. ASSUME NEW h \in Callers, CallerDrops(h) PROVE refs' = refs \ {h}
  BY <1>7 DEF CallerDrops, OnDetached, DropByCaller, Drop
<1>8. CASE MakePool
  BY <1>1, <1>8 DEF MakePool, OnConstruction, PinMaker
<1>9. ASSUME NEW p \in DOMAIN ping, HelperStep(p) PROVE Same
  BY <1>1, <1>9 DEF HelperStep, OnConstruction
<1>10. ASSUME NEW w \in Workers, WorkerStep(w) PROVE Same
  BY <1>1, <1>10 DEF WorkerStep, OnConstruction
<1>11. CASE MakeOther \/ CallOther \/ EndOther
  BY <1>1, <1>11 DEF MakeOther, CallOther, EndOther, OnPins
<1>12. ASSUME NEW t \in Tasks, TaskStep(t) \/ TaskSubmits(t) \/ OnDetached(StopTask(t))
       PROVE  Same
  BY <1>2, <1>3, <1>4, <1>12 DEF TaskStep, TaskSubmits, OnDetached, Threads
<1>13. ASSUME NEW d \in Drivers, DriverStep(d) PROVE Same
  BY <1>1, <1>13 DEF DriverStep, OnWaits
<1>14. CASE DestroyPool
  BY <1>5, <1>14 DEF DestroyPool, OnDetached
<1>15. CASE OnWaits(EndProcess) \/ AllOver \/ UNCHANGED vars
  BY <1>1, <1>15 DEF OnWaits, AllOver, vars
<1> HIDE DEF Same
<1>16. CASE Same
  BY <1>16 DEF Same
<1>17. CASE ~Same
  BY <1>6, <1>7, <1>8, <1>9, <1>10, <1>11, <1>12, <1>13, <1>14, <1>15, <1>17 DEF Next
<1> QED
  BY <1>16, <1>17

-----------------------------------------------------------------------------
Masks == {"wide", "part", "slot"}

PinTypes ==
  /\ mask \in [PinThreads -> Masks]
  /\ tls \in [PinThreads -> [saved : Masks \union {"none"}, pool : Pools \union {NoPool},
                             pending : BOOLEAN]]
  /\ mirror \in [Pools -> [active : BOOLEAN, producer : PinThreads \union {NoPool},
                           saved : Masks \union {"none"}]]
  /\ bound \in [PinThreads -> Masks \union {"none"}]
  /\ \A t \in PinThreads : tls[t].pending => tls[t].saved \in Masks
  /\ \A p \in Pools : mirror[p].active => mirror[p].saved \in Masks

(* What pinning does to the masks and to the two records. *)
LEMMA AutoPinMoves ==
  ASSUME PinTypes, NEW t \in PinThreads, NEW p \in Pools, AutoPin(t, p)
  PROVE  /\ PinTypes' /\ bound' = bound
         /\ mask[t] = "slot" =>
              /\ UNCHANGED <<mask, mirror>>
              /\ \A u \in PinThreads : /\ tls'[u].pending = tls[u].pending
                                       /\ tls'[u].saved = tls[u].saved
         /\ mask[t] # "slot" =>
              /\ \A u \in PinThreads : mask'[u] = IF u = t THEN "slot" ELSE mask[u]
              /\ \A q \in Pools \ {p} : mirror'[q] = mirror[q]
              /\ mirror'[p].active /\ mirror'[p].producer = t
              /\ mirror'[p].saved = ToRestore(tls[t], mask[t])
              /\ \A u \in PinThreads \ {t} : tls'[u] = tls[u]
              /\ tls'[t].pending /\ tls'[t].saved = ToRestore(tls[t], mask[t])
<1>1. CASE mask[t] = "slot"
  <2>1. /\ UNCHANGED <<mask, mirror, bound>>
        /\ tls' = [tls EXCEPT ![t].pool = p]
    BY <1>1 DEF AutoPin
  <2>2. /\ tls'[t] = [tls[t] EXCEPT !.pool = p]
        /\ \A u \in PinThreads \ {t} : tls'[u] = tls[u]
        /\ tls' = [tls EXCEPT ![t] = tls'[t]]
    BY <2>1 DEF PinTypes
  <2>3. tls[t] \in [saved : Masks \union {"none"}, pool : Pools \union {NoPool},
                    pending : BOOLEAN]
    BY DEF PinTypes
  <2>4. /\ tls'[t] \in [saved : Masks \union {"none"}, pool : Pools \union {NoPool},
                        pending : BOOLEAN]
        /\ tls'[t].pending = tls[t].pending /\ tls'[t].saved = tls[t].saved
    BY <2>2, <2>3
  <2>5. /\ tls' \in [PinThreads -> [saved : Masks \union {"none"},
                                    pool : Pools \union {NoPool}, pending : BOOLEAN]]
        /\ \A u \in PinThreads : /\ tls'[u].pending = tls[u].pending
                                 /\ tls'[u].saved = tls[u].saved
    BY <2>2, <2>4 DEF PinTypes
  <2>6. PinTypes'
    BY <2>1, <2>5 DEF PinTypes
  <2> QED
    BY <1>1, <2>1, <2>5, <2>6
<1>2. CASE mask[t] # "slot"
  <2> DEFINE s == ToRestore(tls[t], mask[t])
             r == [saved |-> s, pool |-> p, pending |-> TRUE]
             m == [active |-> TRUE, producer |-> t, saved |-> s]
  <2>1. /\ mask' = [mask EXCEPT ![t] = "slot"]
        /\ tls' = [tls EXCEPT ![t] = r]
        /\ mirror' = [mirror EXCEPT ![p] = m]
        /\ UNCHANGED bound
    BY <1>2 DEF AutoPin
  <2>2. s \in Masks
    BY DEF ToRestore, PinTypes
  <2>3. /\ r \in [saved : Masks \union {"none"}, pool : Pools \union {NoPool},
                  pending : BOOLEAN]
        /\ r.pending /\ r.saved = s
        /\ m \in [active : BOOLEAN, producer : PinThreads \union {NoPool},
                  saved : Masks \union {"none"}]
        /\ m.active /\ m.producer = t /\ m.saved = s
    BY <2>2
  <2> HIDE DEF s, r, m
  <2>4. /\ \A u \in PinThreads : mask'[u] = IF u = t THEN "slot" ELSE mask[u]
        /\ mask' \in [PinThreads -> Masks]
    BY <2>1 DEF PinTypes, Masks
  <2>5. /\ tls'[t] = r /\ \A u \in PinThreads \ {t} : tls'[u] = tls[u]
        /\ tls' \in [PinThreads -> [saved : Masks \union {"none"},
                                    pool : Pools \union {NoPool}, pending : BOOLEAN]]
    BY <2>1, <2>3 DEF PinTypes
  <2>6. /\ mirror'[p] = m /\ \A q \in Pools \ {p} : mirror'[q] = mirror[q]
        /\ mirror' \in [Pools -> [active : BOOLEAN, producer : PinThreads \union {NoPool},
                                  saved : Masks \union {"none"}]]
    BY <2>1, <2>3 DEF PinTypes
  <2>7. \A u \in PinThreads : tls'[u].pending => tls'[u].saved \in Masks
    BY <2>2, <2>3, <2>5 DEF PinTypes
  <2>8. \A q \in Pools : mirror'[q].active => mirror'[q].saved \in Masks
    BY <2>2, <2>3, <2>6 DEF PinTypes
  <2>9. PinTypes'
    BY <2>1, <2>4, <2>5, <2>6, <2>7, <2>8 DEF PinTypes
  <2>10. /\ mirror'[p].active /\ mirror'[p].producer = t /\ mirror'[p].saved = s
         /\ tls'[t].pending /\ tls'[t].saved = s
    BY <2>3, <2>5, <2>6
  <2> QED
    BY <1>2, <2>1, <2>4, <2>5, <2>6, <2>9, <2>10 DEF s
<1> QED
  BY <1>1, <1>2

(* What the end of a pool does. *)
LEMMA RestoreMoves ==
  ASSUME PinTypes, NEW t \in PinThreads, NEW p \in Pools, Restore(t, p)
  PROVE  /\ PinTypes' /\ bound' = bound
         /\ \A u \in PinThreads :
              mask'[u] = IF mirror[p].active /\ u = mirror[p].producer
                         THEN mirror[p].saved ELSE mask[u]
         /\ \A q \in Pools \ {p} : mirror'[q] = mirror[q]
         /\ ~mirror'[p].active
         /\ \A u \in PinThreads : /\ tls'[u].pending => tls[u].pending
                                  /\ tls'[u].saved = tls[u].saved
<1>1. /\ bound' = bound /\ mirror' = [mirror EXCEPT ![p] = NoRecord]
      /\ mask' = IF mirror[p].active
                 THEN [mask EXCEPT ![mirror[p].producer] = mirror[p].saved] ELSE mask
      /\ tls' = IF tls[t].pool = p
                THEN [tls EXCEPT ![t].pending = FALSE, ![t].pool = NoPool] ELSE tls
  BY DEF Restore, Unpinned
<1>2. /\ \A u \in PinThreads :
           mask'[u] = IF mirror[p].active /\ u = mirror[p].producer
                      THEN mirror[p].saved ELSE mask[u]
      /\ mask' \in [PinThreads -> Masks]
  BY <1>1 DEF PinTypes
<1>3. /\ NoRecord \in [active : BOOLEAN, producer : PinThreads \union {NoPool},
                       saved : Masks \union {"none"}]
      /\ ~NoRecord.active
  BY DEF NoRecord
<1>4. /\ \A q \in Pools \ {p} : mirror'[q] = mirror[q]
      /\ ~mirror'[p].active
      /\ mirror' \in [Pools -> [active : BOOLEAN, producer : PinThreads \union {NoPool},
                                saved : Masks \union {"none"}]]
  BY <1>1, <1>3 DEF PinTypes
<1>5. /\ tls' \in [PinThreads -> [saved : Masks \union {"none"},
                                  pool : Pools \union {NoPool}, pending : BOOLEAN]]
      /\ \A u \in PinThreads : /\ tls'[u].pending => tls[u].pending
                               /\ tls'[u].saved = tls[u].saved
  <2>1. CASE tls[t].pool # p
    BY <1>1, <2>1 DEF PinTypes
  <2>2. CASE tls[t].pool = p
    <3>1. tls' = [tls EXCEPT ![t] = [tls[t] EXCEPT !.pending = FALSE, !.pool = NoPool]]
      BY <1>1, <2>2 DEF PinTypes
    <3>2. tls[t] \in [saved : Masks \union {"none"}, pool : Pools \union {NoPool},
                      pending : BOOLEAN]
      BY DEF PinTypes
    <3>3. PICK r : r = [tls[t] EXCEPT !.pending = FALSE, !.pool = NoPool]
      OBVIOUS
    <3>4. /\ r \in [saved : Masks \union {"none"}, pool : Pools \union {NoPool},
                    pending : BOOLEAN]
          /\ ~r.pending /\ r.saved = tls[t].saved
      BY <3>2, <3>3
    <3>5. tls' = [tls EXCEPT ![t] = r]
      BY <3>1, <3>3
    <3> QED
      BY <3>4, <3>5 DEF PinTypes
  <2> QED
    BY <2>1, <2>2
<1>6. PinTypes'
  BY <1>1, <1>2, <1>4, <1>5 DEF PinTypes
<1> QED
  BY <1>1, <1>2, <1>4, <1>5, <1>6

(* What a guard does, at its begin and at its end. *)
LEMMA BindMoves ==
  ASSUME PinTypes, NEW t \in PinThreads, Bind(t)
  PROVE  /\ PinTypes' /\ UNCHANGED <<tls, mirror>> /\ bound[t] = "none"
         /\ \A u \in PinThreads : bound'[u] = IF u = t THEN mask[t] ELSE bound[u]
         /\ \A u \in PinThreads \ {t} : mask'[u] = mask[u]
         /\ mask'[t] \in (IF mask[t] = "slot" THEN {"slot"} ELSE GuardMasks)
<1>1. /\ UNCHANGED <<tls, mirror>> /\ bound[t] = "none"
      /\ bound' = [bound EXCEPT ![t] = mask[t]]
  BY DEF Bind
<1>2. PICK m \in IF mask[t] = "slot" THEN {"slot"} ELSE GuardMasks :
        mask' = [mask EXCEPT ![t] = m]
  BY DEF Bind
<1>3. m \in Masks
  BY <1>2, PinAssumption DEF PinAssumption, Masks
<1> QED
  BY <1>1, <1>2, <1>3 DEF PinTypes

(* The end of a guard gives back what the guard has saved. *)
LEMMA UnbindMoves ==
  ASSUME PinTypes, NEW t \in PinThreads, Unbind(t)
  PROVE  /\ PinTypes' /\ UNCHANGED <<tls, mirror>> /\ bound[t] # "none"
         /\ \A u \in PinThreads : bound'[u] = IF u = t THEN "none" ELSE bound[u]
         /\ \A u \in PinThreads : mask'[u] = IF u = t THEN bound[t] ELSE mask[u]
<1>1. /\ UNCHANGED <<tls, mirror>> /\ bound[t] # "none"
      /\ bound' = [bound EXCEPT ![t] = "none"]
      /\ mask' = [mask EXCEPT ![t] = bound[t]]
  BY DEF Unbind
<1>2. bound[t] \in Masks
  BY <1>1 DEF PinTypes
<1> QED
  BY <1>1, <1>2 DEF PinTypes

-----------------------------------------------------------------------------
(* The steps that touch an affinity. *)
PinningStep ==
  \/ PinMaker
  \/ \E h \in Callers : CallPool(h) \/ BindSlot(h) \/ EndBind(h)
  \/ MakeOther \/ CallOther \/ EndOther
  \/ Destroyed /\ Restore(destroyer.who, ThisPool) /\ UNCHANGED <<roleVars, waitVars>>

(* Other steps leave the affinities alone, and only the end of the         *)
(* destructor makes a pool go.                                             *)
LEMMA OnlyPinning ==
  [Next]_vars => \/ PinningStep
                 \/ UNCHANGED <<pinVars, other, others>> /\ (pool' = "gone" => pool = "gone")
<1> DEFINE Goal == UNCHANGED <<pinVars, other, others>> /\ (pool' = "gone" => pool = "gone")
<1> SUFFICES ASSUME [Next]_vars PROVE PinningStep \/ Goal
  OBVIOUS
<1>1. ASSUME NEW h \in Threads, Submit(h) \/ Submission(h) PROVE pool' = "gone" => pool = "gone"
  BY <1>1 DEF Submit, Submission, Spawn, SpawnFails, TellRolledBack
<1>2. ASSUME NEW t \in Tasks, TaskThread(t) \/ StopTask(t) PROVE pool' = "gone" => pool = "gone"
  BY <1>2 DEF TaskThread, Start, EndBody, ThrowBody, Latch, LeaveFlight, ResetClosure,
              Drop, StopTask
<1>3. ASSUME NEW h \in Callers, DropByCaller(h) PROVE pool' = "gone" => pool = "gone"
  BY <1>3 DEF DropByCaller, Drop
<1>4. Draining => (pool' = "gone" => pool = "gone")
  BY DEF Draining, DrainLock, DrainCheck, DrainWait, DrainWake
<1>5. UNCHANGED detachedVars => (pool' = "gone" => pool = "gone")
  BY DEF detachedVars
<1>6. CASE MakePool
  BY <1>5, <1>6 DEF MakePool, OnConstruction, PinningStep, roleVars
<1>7. ASSUME NEW p \in DOMAIN ping, HelperStep(p) PROVE Goal
  BY <1>5, <1>7 DEF HelperStep, OnConstruction, roleVars
<1>8. ASSUME NEW w \in Workers, WorkerStep(w) PROVE Goal
  BY <1>5, <1>8 DEF WorkerStep, OnConstruction, roleVars
<1>9. ASSUME NEW h \in Callers, CallerStarts(h) \/ CallerDrops(h) \/ CallerStep(h)
      PROVE  Goal
  BY <1>1, <1>3, <1>5, <1>9
  DEF CallerStarts, CallerDrops, CallerStep, OnDetached, OnWaits, roleVars, Threads
<1>10. ASSUME NEW t \in Tasks, TaskStep(t) \/ TaskSubmits(t) \/ OnDetached(StopTask(t))
       PROVE  Goal
  BY <1>1, <1>2, <1>10 DEF TaskStep, TaskSubmits, OnDetached, roleVars, Threads
<1>11. ASSUME NEW d \in Drivers, DriverStep(d) PROVE Goal
  BY <1>5, <1>11 DEF DriverStep, OnWaits, roleVars
<1>12. CASE DestroyPool
  BY <1>4, <1>12 DEF DestroyPool, OnDetached, PinningStep, roleVars
<1>13. CASE OnWaits(EndProcess) \/ AllOver \/ UNCHANGED vars
  BY <1>5, <1>13 DEF OnWaits, AllOver, vars, roleVars
<1> HIDE DEF Goal
<1> QED
  BY <1>6, <1>7, <1>8, <1>9, <1>10, <1>11, <1>12, <1>13 DEF Next, PinningStep

(* The destructor runs on a thread. *)
DestroyerInv == destroyer.at # "no" => destroyer.who \in Threads

(* The one that drops the last reference is a thread, and it stays the     *)
(* destroyer.                                                              *)
LEMMA DestroyerHolds == IInv /\ DestroyerInv /\ [Next]_vars => DestroyerInv'
<1> SUFFICES ASSUME IInv, DestroyerInv, [Next]_vars PROVE DestroyerInv'
  OBVIOUS
<1>1. destroyer \in [who : Threads \union {Nobody},
                     at : {"no", "lock", "check", "wait", "asleep", "drained"}]
  BY DEF IInv, Types
<1>2. CASE UNCHANGED destroyer
  BY <1>2 DEF DestroyerInv
<1>3. ASSUME NEW h \in Threads, Submit(h) \/ Submission(h) PROVE UNCHANGED destroyer
  BY <1>3 DEF Submit, Submission, Spawn, SpawnFails, TellRolledBack
<1>4. ASSUME NEW h \in Threads, Drop(h) PROVE DestroyerInv'
  BY <1>4 DEF Drop, DestroyerInv
<1>5. ASSUME NEW t \in Tasks, TaskThread(t) PROVE DestroyerInv'
  BY <1>2, <1>4, <1>5 DEF TaskThread, Start, EndBody, ThrowBody, Latch, LeaveFlight,
                          ResetClosure, Threads
<1>6. ASSUME NEW h \in Callers, DropByCaller(h) PROVE DestroyerInv'
  BY <1>4, <1>6 DEF DropByCaller, Threads
<1>7. CASE Draining
  <2>1. destroyer.who \in Threads
    BY <1>7 DEF DestroyerInv, Draining, DrainLock, DrainCheck, DrainWait, DrainWake
  <2>2. PICK place \in {"lock", "drained", "check", "wait", "asleep"} :
          destroyer' = [destroyer EXCEPT !.at = place]
    BY <1>7 DEF Draining, DrainLock, DrainCheck, DrainWait, DrainWake, GoDestroyer
  <2> QED
    BY <1>1, <2>1, <2>2 DEF DestroyerInv
<1>8. CASE Destroyed
  BY <1>8 DEF Destroyed, NoDestroyer, DestroyerInv
<1>9. ASSUME NEW t \in Tasks, StopTask(t) PROVE UNCHANGED destroyer
  BY <1>9 DEF StopTask
<1>10. CASE UNCHANGED detachedVars
  BY <1>2, <1>10 DEF detachedVars
<1> QED
  BY <1>2, <1>3, <1>5, <1>6, <1>7, <1>8, <1>9, <1>10, OnlyDetached DEF DetachedStep

(* Every thread has an affinity, and the two pools differ. *)
LEMMA ThreadsPinned ==
  /\ Callers \subseteq PinThreads /\ Threads \subseteq PinThreads /\ Maker \in PinThreads
  /\ Maker \in Callers /\ Waiters = Callers
  /\ ThisPool \in Pools /\ OtherPool \in Pools /\ ThisPool # OtherPool
BY LifetimeAssumption DEF LifetimeAssumption, Threads, ThisPool, OtherPool

(* A call pins its thread, or finds that it has been here. *)
LEMMA EnsureIs ==
  ASSUME NEW t, NEW p, EnsurePinned(t, p)
  PROVE  AutoPin(t, p) \/ UNCHANGED pinVars
  BY DEF EnsurePinned

(* The records of the pins keep their types, and a record in use has a     *)
(* mask to go back to.                                                     *)
LEMMA PinTypesHold == PinTypes /\ DestroyerInv /\ [Next]_vars => PinTypes'
<1> SUFFICES ASSUME PinTypes, DestroyerInv, [Next]_vars PROVE PinTypes'
  OBVIOUS
<1>1. CASE UNCHANGED pinVars
  BY <1>1 DEF PinTypes, pinVars
<1>2. ASSUME NEW t \in PinThreads, NEW p \in Pools,
             AutoPin(t, p) \/ Restore(t, p) \/ Bind(t) \/ Unbind(t)
      PROVE  PinTypes'
  BY <1>2, AutoPinMoves, RestoreMoves, BindMoves, UnbindMoves
<1>3. CASE PinMaker
  BY <1>2, <1>3, ThreadsPinned DEF PinMaker
<1>4. ASSUME NEW h \in Callers, CallPool(h) \/ BindSlot(h) \/ EndBind(h) PROVE PinTypes'
  BY <1>1, <1>2, <1>4, ThreadsPinned, EnsureIs DEF CallPool, BindSlot, EndBind, OnPins
<1>5. CASE MakeOther \/ CallOther \/ EndOther
  BY <1>1, <1>2, <1>5, ThreadsPinned, EnsureIs DEF MakeOther, CallOther, EndOther, OnPins
<1>6. CASE Destroyed /\ Restore(destroyer.who, ThisPool)
  <2>1. destroyer.who \in PinThreads
    BY <1>6, ThreadsPinned DEF Destroyed, DestroyerInv
  <2> QED
    BY <1>2, <1>6, <2>1, ThreadsPinned
<1> QED
  BY <1>1, <1>3, <1>4, <1>5, <1>6, OnlyPinning DEF PinningStep

-----------------------------------------------------------------------------
(* Who waits for a coroutine or is in a guard holds the pool, and so does  *)
(* the maker while it makes it.                                            *)
HoldInv ==
  /\ \A h \in Callers : wpc[h] # "out" \/ bound[h] # "none" => h \in refs
  /\ \A h \in Callers : bound[h] # "none" => ctor = "made"
  /\ ctor # "made" => Maker \in refs

(* Only a caller that holds the pool begins to wait. *)
LEMMA WaitBegins ==
  ASSUME WaitInv, [Next]_vars, NEW h \in Callers, wpc'[h] # "out"
  PROVE  wpc[h] # "out" \/ h \in refs
<1>1. wpc \in [Waiters -> WaiterPlaces] /\ h \in Waiters
  BY ThreadsPinned DEF WaitInv, WaitTypes
<1>2. ASSUME NEW g \in Waiters, g \in refs, CallSyncWait(g)
      PROVE  wpc[h] # "out" \/ h \in refs
  BY <1>1, <1>2 DEF CallSyncWait, GoWaiter
<1>3. ASSUME NEW g \in Waiters, Waiter(g) PROVE wpc[h] # "out"
  BY <1>1, <1>3 DEF Waiter, CoroutineOnWaiter, Look, Wait, ReturnFromWait, GoWaiter
<1>4. ASSUME NEW d \in Drivers, Driver(d) PROVE wpc[h] # "out"
  BY <1>1, <1>4 DEF Driver, TakeNext, Resume, CoroutineOnDriver, LeaveResume, Notify, EndDriver
<1>5. UNCHANGED waitVars \/ EndProcess => wpc[h] # "out"
  BY DEF waitVars, EndProcess
<1> QED
  BY <1>2, <1>3, <1>4, <1>5, OnlyWaits DEF WaitStep

(* Only a caller that holds the pool begins a guard. *)
LEMMA GuardBegins ==
  ASSUME PinTypes, DestroyerInv, [Next]_vars, NEW h \in Callers, bound'[h] # "none"
  PROVE  bound[h] # "none" \/ (h \in refs /\ ctor = "made")
<1>1. h \in PinThreads
  BY ThreadsPinned
<1>2. ASSUME NEW t \in PinThreads, NEW p \in Pools, AutoPin(t, p) \/ Restore(t, p)
      PROVE  bound[h] # "none"
  BY <1>2 DEF AutoPin, Restore
<1>3. UNCHANGED pinVars => bound[h] # "none"
  BY DEF pinVars
<1>4. ASSUME NEW g \in Callers, CallPool(g) \/ BindSlot(g) \/ EndBind(g)
      PROVE  bound[h] # "none" \/ (h \in refs /\ ctor = "made")
  <2>1. CASE CallPool(g)
    BY <1>2, <1>3, <2>1, ThreadsPinned, EnsureIs DEF CallPool, OnPins
  <2>2. CASE BindSlot(g)
    <3>1. g \in refs /\ ctor = "made" /\ g \in PinThreads /\ Bind(g)
      BY <2>2, ThreadsPinned DEF BindSlot, MayCall, Made, OnPins
    <3> QED
      BY <1>1, <3>1, BindMoves
  <2>3. CASE EndBind(g)
    <3>1. g \in PinThreads /\ Unbind(g)
      BY <2>3, ThreadsPinned DEF EndBind, OnPins
    <3> QED
      BY <1>1, <3>1, UnbindMoves
  <2> QED
    BY <1>4, <2>1, <2>2, <2>3
<1>5. CASE PinMaker \/ MakeOther \/ CallOther \/ EndOther
  BY <1>2, <1>3, <1>5, ThreadsPinned, EnsureIs DEF PinMaker, MakeOther, CallOther, EndOther, OnPins
<1>6. CASE Destroyed /\ Restore(destroyer.who, ThisPool)
  BY <1>6 DEF Restore
<1> QED
  BY <1>3, <1>4, <1>5, <1>6, OnlyPinning DEF PinningStep

(* A pool that is made stays so, and only then is a reference dropped. *)
LEMMA MadeForGood ==
  ASSUME [Next]_vars
  PROVE  /\ ctor = "made" => ctor' = "made"
         /\ \A h \in Callers : CallerDrops(h) => /\ ctor = "made" /\ wpc[h] = "out"
                                                 /\ bound[h] = "none"
                                                 /\ UNCHANGED <<wpc, bound, ctor>>
<1>1. ASSUME ctor = "made" PROVE ctor' = "made"
  <2> USE <1>1
  <2>1. UNCHANGED constructionVars => ctor' = "made"
    BY DEF constructionVars, ctorVars
  <2>2. ASSUME MakePool PROVE ctor' = "made"
    BY <2>2 DEF MakePool, OnConstruction, PinMaker, PinProducer, Constructor, Create,
                CreationFails, Barrier, ProbeDone, SignalEnd, JoinWorker, Throw, OfProbe
  <2>3. ASSUME NEW p \in DOMAIN ping, HelperStep(p) PROVE ctor' = "made"
    BY <2>3 DEF HelperStep, OnConstruction, OfProbe
  <2>4. ASSUME NEW w \in Workers, WorkerStep(w) PROVE ctor' = "made"
    BY <2>4 DEF WorkerStep, OnConstruction, WorkerThread, Report, LeaveLoop
  <2>5. ASSUME NEW h \in Callers,
               \/ CallerStarts(h) \/ CallerDrops(h) \/ CallerStep(h)
               \/ CallPool(h) \/ BindSlot(h) \/ EndBind(h)
        PROVE  ctor' = "made"
    BY <2>1, <2>5 DEF CallerStarts, CallerDrops, CallerStep, CallPool, BindSlot, EndBind,
                      OnDetached, OnWaits, OnPins
  <2>6. MakeOther \/ CallOther \/ EndOther => ctor' = "made"
    BY <2>1 DEF MakeOther, CallOther, EndOther, OnPins
  <2>7. ASSUME NEW t \in Tasks, TaskStep(t) \/ TaskSubmits(t) \/ OnDetached(StopTask(t))
        PROVE  ctor' = "made"
    BY <2>1, <2>7 DEF TaskStep, TaskSubmits, OnDetached
  <2>8. ASSUME NEW d \in Drivers, DriverStep(d) PROVE ctor' = "made"
    BY <2>1, <2>8 DEF DriverStep, OnWaits
  <2>9. DestroyPool => ctor' = "made"
    BY <2>1 DEF DestroyPool, OnDetached, EndWorkers
  <2>10. OnWaits(EndProcess) \/ AllOver \/ UNCHANGED vars => ctor' = "made"
    BY <2>1 DEF OnWaits, AllOver, vars
  <2> QED
    BY <2>2, <2>3, <2>4, <2>5, <2>6, <2>7, <2>8, <2>9, <2>10 DEF Next
<1>2. ASSUME NEW h \in Callers, CallerDrops(h)
      PROVE  /\ ctor = "made" /\ wpc[h] = "out" /\ bound[h] = "none"
             /\ UNCHANGED <<wpc, bound, ctor>>
  BY <1>2 DEF CallerDrops, Made, Free, OnDetached, waitVars, constructionVars, ctorVars, pinVars
<1> QED
  BY <1>1, <1>2

(* Nobody that waits, is in a guard or makes the pool lets go of it. *)
LEMMA HoldStep ==
  IInv /\ WaitInv /\ PinTypes /\ DestroyerInv /\ HoldInv /\ [Next]_vars => HoldInv'
<1> SUFFICES ASSUME IInv, WaitInv, PinTypes, DestroyerInv, HoldInv, [Next]_vars
             PROVE  HoldInv'
  OBVIOUS
<1>1. CASE refs' \intersect Callers = refs \intersect Callers
  BY <1>1, WaitBegins, GuardBegins, MadeForGood, ThreadsPinned DEF HoldInv
<1>2. ASSUME NEW g \in Callers, CallerDrops(g), refs' = refs \ {g} PROVE HoldInv'
  BY <1>2, MadeForGood DEF HoldInv
<1> QED
  BY <1>1, <1>2, RefsMove

-----------------------------------------------------------------------------
HeldInv == WaitInv /\ PinTypes /\ DestroyerInv /\ HoldInv

(* At first every caller holds the pool and nobody is pinned. *)
LEMMA HeldInit == Init => HeldInv
<1> SUFFICES ASSUME Init PROVE HeldInv
  OBVIOUS
<1>1. PinTypes
  <2>1. /\ [saved |-> "none", pool |-> NoPool, pending |-> FALSE] \in
             [saved : Masks \union {"none"}, pool : Pools \union {NoPool}, pending : BOOLEAN]
        /\ NoRecord \in [active : BOOLEAN, producer : PinThreads \union {NoPool},
                         saved : Masks \union {"none"}]
        /\ ~NoRecord.active
    BY DEF NoRecord
  <2>2. /\ mask = [t \in PinThreads |-> "wide"] /\ bound = [t \in PinThreads |-> "none"]
        /\ tls = [t \in PinThreads |-> [saved |-> "none", pool |-> NoPool, pending |-> FALSE]]
        /\ mirror = [p \in Pools |-> NoRecord]
    BY DEF Init, AutoPinInit
  <2>3. \A t \in PinThreads : ~tls[t].pending
    BY <2>2
  <2> QED
    BY <2>1, <2>2, <2>3 DEF PinTypes, Masks
<1>2. DestroyerInv
  BY DEF Init, DetachedInit, NoDestroyer, DestroyerInv
<1>3. HoldInv
  BY ThreadsPinned DEF Init, DetachedInit, SyncWaitInit, AutoPinInit, HoldInv
<1> QED
  BY <1>1, <1>2, <1>3, WaitInitHolds DEF HeldInv

(* Every gate counts the drivers that have a resume of its coroutine       *)
(* before them or are in one, and who waits for one holds the pool.        *)
THEOREM Gates == Spec => []HeldInv
<1>1. IInv /\ HeldInv /\ [Next]_vars => HeldInv'
  BY WaitStepHolds, PinTypesHold, DestroyerHolds, HoldStep DEF HeldInv
<1> QED
  BY <1>1, HeldInit, Counting, PTL DEF Spec

(* syncWait returns, and destroys the coroutine, only when no driver has   *)
(* it before it or is in it, and a body runs on a pool that is there, for  *)
(* any number of callers, drivers and awaits.                              *)
THEOREM ResumesOver == Spec => []FrameOutlivesResume
<1>1. IInv /\ HeldInv => FrameOutlivesResume
  <2> SUFFICES ASSUME IInv, HeldInv PROVE FrameOutlivesResume
    OBVIOUS
  <2>1. ASSUME NEW w \in Waiters, wpc[w] = "out", NEW d \in Drivers
        PROVE  /\ dpc[d] \in {"body", "coroutine", "unwind"} => serves[d] # w
               /\ \A i \in DOMAIN queue[d] : queue[d][i] # w
    <3>1. Entries(w) = {}
      BY <2>1 DEF HeldInv, WaitInv, GateInv
    <3>2. ASSUME NEW i \in Nat PROVE ~Entry(w, d, i)
      <4>1. <<d, i>> \in Drivers \X Nat /\ <<d, i>>[1] = d /\ <<d, i>>[2] = i
        OBVIOUS
      <4> QED
        BY <3>1, <4>1 DEF Entries
    <3>3. dpc[d] \in {"body", "coroutine", "unwind"} => serves[d] # w
      BY <3>2 DEF Entry, Inside
    <3>4. ASSUME NEW i \in DOMAIN queue[d] PROVE queue[d][i] # w
      <4>1. queue[d] \in Seq(Waiters)
        BY DEF HeldInv, WaitInv, WaitTypes
      <4>2. i \in Nat \ {0} /\ i <= Len(queue[d])
        BY <4>1
      <4> QED
        BY <3>2, <4>2 DEF Entry
    <3> QED
      BY <3>3, <3>4
  <2>2. ASSUME dpc[PoolDriver] = "body" PROVE pool # "gone"
    <3>1. PoolDriver \in Drivers
      BY LifetimeAssumption DEF LifetimeAssumption
    <3>2. serves[PoolDriver] \in Callers
      BY <2>2, <3>1, ThreadsPinned DEF HeldInv, WaitInv, WaitTypes, Inside
    <3>3. wpc[serves[PoolDriver]] # "out"
      BY <2>1, <2>2, <3>1, <3>2, ThreadsPinned
    <3>4. refs # {}
      BY <3>2, <3>3 DEF HeldInv, HoldInv
    <3> QED
      BY <3>4 DEF IInv, EndInv
  <2> QED
    BY <2>1, <2>2 DEF FrameOutlivesResume
<1> QED
  BY <1>1, Gates, Counting, PTL

-----------------------------------------------------------------------------
(* The constructor.  It keeps to what it promises if only the creation of  *)
(* a thread fails: README, section 4, has the other ways out.              *)
OnlyCreationFails == FailsAt \subseteq {"create"}

WorkerPlaces == {"none", "created", "ready", "gone"}
CtorPlaces == {"spawn", "pin", "probe", "made", "shutdown", "join", "failed"}

(* The pool has its workers. *)
Staffed == ctor \in {"pin", "probe"} \/ (ctor = "made" /\ pool # "gone")

ConInv ==
  /\ ctor \in CtorPlaces /\ slot \in Nat
  /\ workers \in [Workers -> WorkerPlaces] /\ handles \subseteq Workers
  /\ ctor \in {"spawn", "shutdown"} \/ Staffed =>
       ~leaving /\ \A w \in Workers : workers[w] # "gone"
  /\ ctor \in {"spawn", "shutdown"} => \A w \in Workers : workers[w] # "none" <=> w < slot
  /\ ctor = "spawn" => handles = Workers
  /\ ctor = "shutdown" => \A w \in Workers : w \in handles <=> w < slot
  /\ ctor = "join" => \A w \in Workers : /\ w \in handles => workers[w] # "none"
                                         /\ w \notin handles => workers[w] \in {"none", "gone"}
  /\ ctor = "failed" => \A w \in Workers : workers[w] \in {"none", "gone"}
  /\ Staffed => \A w \in Workers : workers[w] = "ready"

ConVars == <<ctor, slot, handles, workers, leaving>>

(* The steps of the constructor and of the workers it creates. *)
ConStep == Constructor \/ (PinProducer /\ UNCHANGED detachedVars)
           \/ \E w \in Workers : WorkerThread(w)

(* Only the constructor, its workers and the end of the pool touch the     *)
(* state of Construction.                                                  *)
LEMMA OnlyCon ==
  [Next]_vars => \/ ConStep /\ UNCHANGED detachedVars
                 \/ Destroyed /\ EndWorkers
                 \/ UNCHANGED ConVars
<1> SUFFICES ASSUME [Next]_vars
             PROVE  \/ ConStep /\ UNCHANGED detachedVars
                    \/ Destroyed /\ EndWorkers
                    \/ UNCHANGED ConVars
  OBVIOUS
<1>1. CASE UNCHANGED constructionVars
  BY <1>1 DEF constructionVars, ctorVars, ConVars
<1>2. CASE UNCHANGED <<ctorVars, detachedVars>>
  BY <1>2 DEF ctorVars, ConVars, detachedVars
<1>3. CASE MakePool
  <2>1. CASE OnConstruction(Constructor)
    BY <2>1 DEF OnConstruction, ConStep
  <2>2. CASE OnConstruction(OfProbe(Probe))
    BY <1>2, <2>2 DEF OnConstruction, OfProbe
  <2>3. CASE OnConstruction(\E p \in DOMAIN ping : OfProbe(PairThread(p)))
    BY <1>2, <2>3 DEF OnConstruction, OfProbe
  <2>4. CASE PinMaker
    BY <2>4 DEF PinMaker, ConStep
  <2> QED
    BY <1>3, <2>1, <2>2, <2>3, <2>4 DEF MakePool, OnConstruction
<1>4. ASSUME NEW p \in DOMAIN ping, HelperStep(p) PROVE UNCHANGED <<ctorVars, detachedVars>>
  BY <1>4 DEF HelperStep, OnConstruction, OfProbe
<1>5. ASSUME NEW w \in Workers, WorkerStep(w) PROVE ConStep /\ UNCHANGED detachedVars
  BY <1>5 DEF WorkerStep, OnConstruction, ConStep
<1>6. ASSUME NEW h \in Callers,
             \/ CallerStarts(h) \/ CallerDrops(h) \/ CallerStep(h)
             \/ CallPool(h) \/ BindSlot(h) \/ EndBind(h)
      PROVE  UNCHANGED constructionVars
  BY <1>6 DEF CallerStarts, CallerDrops, CallerStep, CallPool, BindSlot, EndBind,
              OnDetached, OnWaits, OnPins
<1>7. MakeOther \/ CallOther \/ EndOther => UNCHANGED constructionVars
  BY DEF MakeOther, CallOther, EndOther, OnPins
<1>8. ASSUME NEW t \in Tasks, TaskStep(t) \/ TaskSubmits(t) \/ OnDetached(StopTask(t))
      PROVE  UNCHANGED constructionVars
  BY <1>8 DEF TaskStep, TaskSubmits, OnDetached
<1>9. ASSUME NEW d \in Drivers, DriverStep(d) PROVE UNCHANGED constructionVars
  BY <1>9 DEF DriverStep, OnWaits
<1>10. DestroyPool => UNCHANGED constructionVars \/ (Destroyed /\ EndWorkers)
  BY DEF DestroyPool, OnDetached
<1>11. OnWaits(EndProcess) \/ AllOver \/ UNCHANGED vars => UNCHANGED constructionVars
  BY DEF OnWaits, AllOver, vars
<1> QED
  BY <1>1, <1>2, <1>3, <1>4, <1>5, <1>6, <1>7, <1>8, <1>9, <1>10, <1>11 DEF Next

(* There is a worker for every CPU but one, and at least one. *)
LEMMA WorkersFinite ==
  /\ Cpus \in Nat /\ Cpus > 1 /\ Workers \subseteq Nat \ {0}
  /\ IsFiniteSet(Workers) /\ Cardinality(Workers) = Cpus - 1
  /\ 1 \in Workers
<1>1. Cpus \in Nat /\ Cpus > 1
  BY ProbeAssumption, ConstructionAssumption DEF ProbeAssumption, ConstructionAssumption
<1>2. IsFiniteSet(1 .. Cpus - 1) /\ Cardinality(1 .. Cpus - 1) = Cpus - 1
  BY <1>1, FS_Interval
<1> QED
  BY <1>1, <1>2 DEF Workers

(* The constructor goes on when as many workers have reported as it has    *)
(* created.                                                                *)
LEMMA AllReady ==
  ASSUME Cardinality(Ready) = Cpus - 1
  PROVE  Ready = Workers
<1>1. Ready \subseteq Workers
  BY DEF Ready
<1> QED
  BY <1>1, WorkersFinite, FS_Subset

(* No reference is left that could make another end of the pool. *)
LEMMA GoneForGood ==
  ASSUME IInv, [Next]_vars, pool = "gone"
  PROVE  pool' = "gone"
<1>1. refs = {}
  BY DEF IInv, EndInv
<1>2. ASSUME NEW h \in Threads, Submit(h) \/ Submission(h) PROVE pool' = "gone"
  BY <1>2 DEF Submit, Submission, Spawn, SpawnFails, TellRolledBack
<1>3. ASSUME NEW t \in Tasks, TaskThread(t) \/ StopTask(t) PROVE pool' = "gone"
  BY <1>1, <1>3 DEF TaskThread, Start, EndBody, ThrowBody, Latch, LeaveFlight,
                    ResetClosure, Drop, StopTask
<1>4. ASSUME NEW h \in Callers, DropByCaller(h) PROVE pool' = "gone"
  BY <1>1, <1>4 DEF DropByCaller, Drop
<1>5. Draining \/ Destroyed => pool' = "gone"
  BY DEF Draining, DrainLock, DrainCheck, DrainWait, DrainWake, Destroyed
<1>6. UNCHANGED detachedVars => pool' = "gone"
  BY DEF detachedVars
<1> QED
  BY <1>2, <1>3, <1>4, <1>5, <1>6, OnlyDetached DEF DetachedStep

(* Every step keeps the account of the threads. *)
LEMMA ConStepHolds ==
  ASSUME OnlyCreationFails, IInv, HoldInv, ConInv, [Next]_vars
  PROVE  ConInv'
<1>1. CASE UNCHANGED ConVars
  BY <1>1, GoneForGood DEF ConInv, ConVars, Staffed
<1>2. CASE Destroyed /\ EndWorkers
  <2>1. pool' = "gone" /\ pool = "draining" /\ ctor = "made"
    BY <1>2 DEF Destroyed, IInv, EndInv, HoldInv
  <2>2. /\ UNCHANGED <<ctor, slot>> /\ handles' = {}
        /\ workers' = [w \in Workers |-> "gone"]
    BY <1>2 DEF EndWorkers
  <2> QED
    BY <2>1, <2>2 DEF ConInv, Staffed, WorkerPlaces
<1>3. ASSUME NEW w \in Workers, WorkerThread(w), UNCHANGED detachedVars PROVE ConInv'
  <2>1. CASE Report(w)
    <3>1. /\ workers[w] = "created" /\ UNCHANGED <<ctor, slot, handles, leaving, pool>>
          /\ workers' \in [Workers -> WorkerPlaces]
          /\ \A v \in Workers : workers'[v] = IF v = w THEN "ready" ELSE workers[v]
      BY <1>3, <2>1 DEF Report, ConInv, WorkerPlaces, detachedVars
    <3> QED
      BY <3>1 DEF ConInv, Staffed
  <2>2. CASE LeaveLoop(w)
    <3>1. /\ workers[w] = "ready" /\ leaving /\ UNCHANGED <<ctor, slot, handles, leaving, pool>>
          /\ workers' \in [Workers -> WorkerPlaces]
          /\ \A v \in Workers : workers'[v] = IF v = w THEN "gone" ELSE workers[v]
      BY <1>3, <2>2 DEF LeaveLoop, ConInv, WorkerPlaces, detachedVars
    <3> QED
      BY <3>1 DEF ConInv, Staffed
  <2> QED
    BY <1>3, <2>1, <2>2 DEF WorkerThread
<1>4. CASE PinProducer /\ UNCHANGED detachedVars
  BY <1>4 DEF PinProducer, ConInv, CtorPlaces, Staffed, detachedVars
<1>5. CASE Constructor /\ UNCHANGED detachedVars
  <2>0. UNCHANGED pool
    BY <1>5 DEF detachedVars
  <2>1. CASE Create
    <3>1. /\ ctor = "spawn" /\ slot \in Workers /\ slot \in Nat /\ slot' = slot + 1
          /\ workers' \in [Workers -> WorkerPlaces]
          /\ \A v \in Workers : workers'[v] = IF v = slot THEN "created" ELSE workers[v]
          /\ UNCHANGED <<ctor, handles, leaving>>
      BY <2>1, WorkersFinite DEF Create, ConInv, WorkerPlaces
    <3>2. \A v \in Workers : v < slot' <=> v < slot \/ v = slot
      BY <3>1, WorkersFinite
    <3> QED
      BY <3>1, <3>2 DEF ConInv, Staffed
  <2>2. CASE CreationFails
    <3>1. /\ ctor = "spawn" /\ ctor' = "shutdown" /\ handles' = Created
          /\ UNCHANGED <<slot, workers, leaving>>
      BY <2>2 DEF CreationFails, OnlyCreationFails
    <3> QED
      BY <3>1 DEF ConInv, Staffed, CtorPlaces, Created
  <2>3. CASE Barrier
    <3>1. /\ ctor = "spawn" /\ ctor' = "pin" /\ Ready = Workers
          /\ UNCHANGED <<slot, handles, workers, leaving>>
      BY <2>3, AllReady DEF Barrier
    <3> QED
      BY <3>1 DEF ConInv, Staffed, CtorPlaces, Ready
  <2>4. CASE ProbeDone
    <3>1. /\ ctor = "probe" /\ ctor' = "made"
          /\ UNCHANGED <<slot, handles, workers, leaving>>
      BY <2>4 DEF ProbeDone, OnlyCreationFails
    <3> QED
      BY <2>0, <3>1 DEF ConInv, Staffed, CtorPlaces
  <2>5. CASE SignalEnd
    <3>1. /\ ctor = "shutdown" /\ ctor' = "join"
          /\ UNCHANGED <<slot, handles, workers>>
      BY <2>5 DEF SignalEnd
    <3> QED
      BY <3>1 DEF ConInv, Staffed, CtorPlaces
  <2>6. CASE JoinWorker
    <3>1. PICK w \in handles : workers[w] = "gone" /\ handles' = handles \ {w}
      BY <2>6 DEF JoinWorker
    <3>2. ctor = "join" /\ UNCHANGED <<ctor, slot, workers, leaving>>
      BY <2>6 DEF JoinWorker
    <3> QED
      BY <3>1, <3>2 DEF ConInv, Staffed
  <2>7. CASE Throw
    <3>1. /\ ctor = "join" /\ ctor' = "failed" /\ handles = {}
          /\ UNCHANGED <<slot, handles, workers, leaving>>
      BY <2>7 DEF Throw
    <3> QED
      BY <3>1 DEF ConInv, Staffed, CtorPlaces
  <2> QED
    BY <1>5, <2>1, <2>2, <2>3, <2>4, <2>5, <2>6, <2>7 DEF Constructor
<1> QED
  BY <1>1, <1>2, <1>3, <1>4, <1>5, OnlyCon DEF ConStep

(* At first no thread has been created. *)
LEMMA ConInitHolds == Init => ConInv
<1> SUFFICES ASSUME Init PROVE ConInv
  OBVIOUS
<1>1. /\ ctor = "spawn" /\ slot = 1 /\ handles = Workers /\ leaving = FALSE
      /\ workers = [w \in Workers |-> "none"]
  BY DEF Init, ConstructionInit
<1>2. \A w \in Workers : ~(w < 1)
  BY WorkersFinite
<1> QED
  BY <1>1, <1>2 DEF ConInv, CtorPlaces, WorkerPlaces, Staffed

(* initWorkers returns with all the workers at work, or throws and leaves  *)
(* none behind, and joins no thread that it has not created, for any       *)
(* number of workers and wherever pthread_create fails.                    *)
THEOREM Undone ==
  ASSUME OnlyCreationFails
  PROVE  Spec => []WorkersThereOrUndone
<1>1. IInv /\ HeldInv /\ ConInv /\ [Next]_vars => ConInv'
  BY ConStepHolds DEF HeldInv
<1>2. ConInv => WorkersThereOrUndone
  BY DEF ConInv, WorkersThereOrUndone, Staffed, Made, Ready, Running
<1> QED
  BY <1>1, <1>2, ConInitHolds, Gates, Counting, PTL DEF Spec
=============================================================================
