------------------------------ MODULE ForkJoin ------------------------------
(***************************************************************************)
(* forkJoin and forkJoinAll: the outer call, which puts its tasks on the   *)
(* deque of slot 0 and lets every slot drain, and the calls its tasks make *)
(* in turn, which keep their last task for themselves, offer the others on *)
(* the deque of the slot they run on and help with whatever they find      *)
(* while they wait.                                                        *)
(*                                                                         *)
(* Sources: thread_pool.h (forkJoinImpl, forkJoinAll, runForkJoinOuter,    *)
(* runForkJoinTypedTailNested, runForkJoinDrain, runOneTaskImpl,           *)
(* runOneTaskOwn, captureFirstException, rethrowIfCaptured),               *)
(* detail/forkjoin_state.h.                                                *)
(*                                                                         *)
(* A thread's C++ stack is the sequence of its frames: a call that drains, *)
(* a task above it, a call of that task above it, and so on.  A deque is   *)
(* the line of tasks of module TaskDeque.  What a task does is open: it    *)
(* ends, throws or makes a call.                                           *)
(***************************************************************************)
EXTENDS Integers, SequencesExt

CONSTANTS Slots,       (* 0 .. participants - 1; slot 0 is the producer   *)
          Wide,        (* the calls with three tasks; others have two     *)
          Tokened,     (* the calls that are given the token              *)
          MaxCalls     (* bound on the calls, outer and nested            *)

ForkJoinAssumption ==
  /\ Slots \subseteq Nat /\ 0 \in Slots /\ IsFiniteSet(Slots)
  /\ Wide \subseteq Nat /\ Tokened \subseteq Nat
  /\ MaxCalls \in Nat

ASSUME ForkJoinAssumption

Calls == 1 .. MaxCalls
Fanout(c) == IF c \in Wide THEN 3 ELSE 2
Tasks == UNION {{c} \X (1 .. Fanout(c)) : c \in Calls}
None == <<0, 0>>           (* no call, no exception *)
CallOf(t) == t[1]

VARIABLES
  deque,       (* m_workerDeques                                          *)
  stack,       (* the frames of each slot, the outermost first             *)
  used,        (* the calls made so far                                    *)
  outer,       (* the outer call in progress, or 0                         *)
  job,         (* the slots that have still to begin their share           *)
  open,        (* the calls whose ForkJoinState is alive                   *)
  pending,     (* ForkJoinState::pendingTasks                              *)
  cancelled,   (* ForkJoinState::forkJoinCancelled                         *)
  exc,         (* ForkJoinState::firstException: the task that threw it    *)
  token,       (* ForkJoinState::token: the open calls that carry it       *)
  stopped,     (* that token has been stopped                              *)
  threw,       (* the tasks of open calls that have thrown (history)       *)
  outcome      (* what the last call to return has rethrown, or None       *)

stateVars == <<pending, cancelled, exc, token>>
vars == <<deque, stack, used, outer, job, open, stateVars, stopped, threw, outcome>>

(* A call, with the private count of its caller (its pushes so far, before *)
(* it drains); a task, with how it came to this slot: taken by the call it *)
(* belongs to from the slot's own deque ("own"), taken in any other way    *)
(* ("peer"), or kept for the caller itself ("tail").                       *)
CallFrame(at, c, own) == [at |-> at, call |-> c, own |-> own]
TaskFrame(at, t, how) == [at |-> at, task |-> t, how |-> how]

Init ==
  /\ deque = [s \in Slots |-> <<>>]
  /\ stack = [s \in Slots |-> <<>>]
  /\ used = 0 /\ outer = 0 /\ job = {} /\ open = {}
  /\ pending = [c \in Calls |-> 0]
  /\ cancelled = [c \in Calls |-> FALSE]
  /\ exc = [c \in Calls |-> None]
  /\ token = {} /\ stopped = FALSE
  /\ threw = {}
  /\ outcome = None

At(s, place) == stack[s] # <<>> /\ Last(stack[s]).at = place
TopCall(s) == Last(stack[s]).call
TopTask(s) == Last(stack[s]).task

Enter(s, f) == stack' = [stack EXCEPT ![s] = Append(@, f)]
Move(s, place) == stack' = [stack EXCEPT ![s][Len(stack[s])].at = place]
Leave(s) == stack' = [stack EXCEPT ![s] = Front(@)]

-----------------------------------------------------------------------------
(***************************************************************************)
(* The outer call: under the gate, one at a time.                          *)
(***************************************************************************)
OuterCall ==
  LET c == used + 1
  IN  /\ outer = 0 /\ c \in Calls
      /\ used' = c /\ outer' = c
      /\ open' = open \union {c}
      /\ pending' = [pending EXCEPT ![c] = Fanout(c)]
      /\ token' = token \union ({c} \intersect Tokened)
      /\ deque' = [deque EXCEPT ![0] = @ \o [i \in 1 .. Fanout(c) |-> <<c, i>>]]
      /\ job' = Slots
      /\ UNCHANGED <<stack, cancelled, exc, stopped, threw, outcome>>

(* The dispatch reaches a slot: runForkJoinDrain for the outer call. *)
Begin(s) ==
  /\ s \in job
  /\ job' = job \ {s}
  /\ Enter(s, CallFrame("drain", outer, 0))
  /\ UNCHANGED <<deque, used, outer, open, stateVars, stopped, threw, outcome>>

(* rethrowIfCaptured, and the end of a ForkJoinState. *)
Close(c) ==
  /\ open' = open \ {c}
  /\ outcome' = exc[c]
  /\ exc' = [exc EXCEPT ![c] = None]
  /\ pending' = [pending EXCEPT ![c] = 0]
  /\ cancelled' = [cancelled EXCEPT ![c] = FALSE]
  /\ token' = token \ {c}

(* Every slot has stamped. *)
Return ==
  /\ outer # 0 /\ job = {} /\ \A s \in Slots : stack[s] = <<>>
  /\ Close(outer)
  /\ threw' = {t \in threw : CallOf(t) # outer}
  /\ outer' = 0
  /\ UNCHANGED <<deque, stack, used, job, stopped>>

-----------------------------------------------------------------------------
(***************************************************************************)
(* runForkJoinDrain.                                                       *)
(***************************************************************************)
(* Only a nested call counts its own tasks privately. *)
Counts(c) == c # outer

Effective(f) == pending[f.call] - f.own

Look(s) ==
  /\ At(s, "drain")
  /\ Effective(Last(stack[s])) > 0
  /\ Move(s, "pop")
  /\ UNCHANGED <<deque, used, outer, job, open, stateVars, stopped, threw, outcome>>

Above(s, f) ==      \* a task on top of the call, which is back in its loop
  stack' = [stack EXCEPT ![s] = Append([@ EXCEPT ![Len(@)].at = "drain"], f)]

HowPopped(c, t) == IF Counts(c) /\ CallOf(t) = c THEN "own" ELSE "peer"

PopOwn(s) ==
  /\ At(s, "pop")
  /\ deque[s] # <<>>
  /\ LET t == Last(deque[s])
     IN  Above(s, TaskFrame("gate", t, HowPopped(TopCall(s), t)))
  /\ deque' = [deque EXCEPT ![s] = Front(@)]
  /\ UNCHANGED <<used, outer, job, open, stateVars, stopped, threw, outcome>>

PopNone(s) ==
  /\ At(s, "pop")
  /\ deque[s] = <<>>
  /\ Move(s, "steal")
  /\ UNCHANGED <<deque, used, outer, job, open, stateVars, stopped, threw, outcome>>

(* ChaseLevDeque::steal takes from the front. *)
FromTheBack(q) == [task |-> Last(q), rest |-> Front(q)]     \* mutant
Stolen(q) == [task |-> Head(q), rest |-> Tail(q)]

Steal(s, v) ==
  /\ At(s, "steal")
  /\ v # s /\ deque[v] # <<>>
  /\ Above(s, TaskFrame("gate", Stolen(deque[v]).task, "peer"))
  /\ deque' = [deque EXCEPT ![v] = Stolen(@).rest]
  /\ UNCHANGED <<used, outer, job, open, stateVars, stopped, threw, outcome>>

(* Nothing there, or somebody else was faster: a steal may always fail. *)
StealNone(s) ==
  /\ At(s, "steal")
  /\ Move(s, "drain")
  /\ UNCHANGED <<deque, used, outer, job, open, stateVars, stopped, threw, outcome>>

(* The outer call's share of a slot is over. *)
ShareDone(s) ==
  /\ At(s, "drain") /\ TopCall(s) = outer
  /\ Effective(Last(stack[s])) <= 0
  /\ Leave(s)
  /\ UNCHANGED <<deque, used, outer, job, open, stateVars, stopped, threw, outcome>>

(* A nested call returns into the task that made it, or throws there. *)
JoinDone(s) ==
  /\ At(s, "drain") /\ TopCall(s) # outer
  /\ Effective(Last(stack[s])) <= 0
  /\ LET c == TopCall(s)
         below == Front(stack[s])
         caller == Last(below).task
         over == {t \in threw : CallOf(t) = c}
     IN  /\ Close(c)
         /\ stack' = [stack EXCEPT ![s] =
                        [below EXCEPT ![Len(below)].at =
                           IF exc[c] = None THEN "body" ELSE "threw"]]
         /\ threw' = IF exc[c] = None THEN threw \ over
                                      ELSE (threw \ over) \union {caller}
  /\ UNCHANGED <<deque, used, outer, job, stopped>>

-----------------------------------------------------------------------------
(***************************************************************************)
(* A task.                                                                 *)
(***************************************************************************)
Skipped(c) == cancelled[c] \/ (c \in token /\ stopped)

Gate(s) ==
  /\ At(s, "gate")
  /\ Move(s, IF Skipped(CallOf(TopTask(s))) THEN "skipped" ELSE "body")
  /\ UNCHANGED <<deque, used, outer, job, open, stateVars, stopped, threw, outcome>>

BodyEnd(s) ==
  /\ At(s, "body")
  /\ Move(s, "retire")
  /\ UNCHANGED <<deque, used, outer, job, open, stateVars, stopped, threw, outcome>>

BodyThrow(s) ==
  /\ At(s, "body")
  /\ Move(s, "threw")
  /\ threw' = threw \union {TopTask(s)}
  /\ UNCHANGED <<deque, used, outer, job, open, stateVars, stopped, outcome>>

(* forkJoin from a task: runForkJoinTypedTailNested.  All tasks but the    *)
(* last go to the deque, and only they are counted.                        *)
Deferred(c) == Fanout(c) - 1
CountTail(c) == Fanout(c)                   \* mutant: the tail is counted
InitialCount(c) == Deferred(c)

BodyFork(s) ==
  LET c == used + 1
  IN  /\ At(s, "body") /\ c \in Calls
      /\ used' = c
      /\ open' = open \union {c}
      /\ pending' = [pending EXCEPT ![c] = InitialCount(c)]
      /\ token' = token \union ({c} \intersect Tokened)
      /\ Enter(s, CallFrame("push", c, 0))
      /\ UNCHANGED <<deque, outer, job, cancelled, exc, stopped, threw, outcome>>

Push(s) ==
  LET f == Last(stack[s])
      next == f.own + 1
  IN  /\ At(s, "push")
      /\ deque' = [deque EXCEPT ![s] = Append(@, <<f.call, next>>)]
      /\ stack' = [stack EXCEPT ![s] =
                     IF next < Deferred(f.call)
                     THEN [@ EXCEPT ![Len(@)].own = next]
                     ELSE Front(@) \o <<CallFrame("tail", f.call, 0),
                                       TaskFrame("gate", <<f.call, Fanout(f.call)>>, "tail")>>]
      /\ UNCHANGED <<used, outer, job, open, stateVars, stopped, threw, outcome>>

(* compare_exchange_strong on the slot of the first exception. *)
Capture(s) ==
  LET c == CallOf(TopTask(s))
  IN  /\ At(s, "threw")
      /\ exc' = [exc EXCEPT ![c] = IF @ = None THEN TopTask(s) ELSE @]
      /\ Move(s, "flag")
      /\ UNCHANGED <<deque, used, outer, job, open, pending, cancelled, token,
                     stopped, threw, outcome>>

Flag(s) ==
  /\ At(s, "flag")
  /\ cancelled' = [cancelled EXCEPT ![CallOf(TopTask(s))] = TRUE]
  /\ Move(s, "retire")
  /\ UNCHANGED <<deque, used, outer, job, open, pending, exc, token, stopped,
                 threw, outcome>>

(* A task counts as over when its frame is left: on the private count, on  *)
(* the shared one, or, for the tail, by going on to the drain.             *)
OnlyBodies(c) == IF cancelled[c] THEN 0 ELSE 1   \* mutant: a skipped task is not counted
Weight(c) == 1

AllButOwn(how) == how # "own"                \* mutant: the tail counts, too
Shared(how) == how = "peer"

Retire(s) ==
  LET f == Last(stack[s])
      c == CallOf(f.task)
      below == Front(stack[s])
      n == Len(below)
  IN  /\ At(s, "retire") \/ At(s, "skipped")
      /\ pending' = IF Shared(f.how) THEN [pending EXCEPT ![c] = @ - Weight(c)]
                                      ELSE pending
      /\ stack' = [stack EXCEPT ![s] =
                     CASE f.how = "own"  -> [below EXCEPT ![n].own = @ + 1]
                       [] f.how = "tail" -> [below EXCEPT ![n].at = "drain"]
                       [] f.how = "peer" -> below]
      /\ UNCHANGED <<deque, used, outer, job, open, cancelled, exc, token,
                     stopped, threw, outcome>>

-----------------------------------------------------------------------------
(* Whoever holds the source of the token stops it at any time. *)
Stop ==
  /\ ~stopped /\ token # {}
  /\ stopped' = TRUE
  /\ UNCHANGED <<deque, stack, used, outer, job, open, stateVars, threw, outcome>>

Slot(s) ==
  \/ Begin(s) \/ Look(s) \/ PopOwn(s) \/ PopNone(s) \/ StealNone(s)
  \/ ShareDone(s) \/ JoinDone(s)
  \/ Gate(s) \/ BodyEnd(s) \/ BodyThrow(s) \/ BodyFork(s) \/ Push(s)
  \/ Capture(s) \/ Flag(s) \/ Retire(s)
  \/ \E v \in Slots : Steal(s, v)

AllCallsMade == used = MaxCalls /\ outer = 0 /\ UNCHANGED vars

Next == OuterCall \/ Return \/ Stop \/ AllCallsMade \/ \E s \in Slots : Slot(s)

(* Every thread goes on running; nobody has to call, to stop the token, or *)
(* ever to find something to steal.                                        *)
Fairness == WF_vars(Return) /\ \A s \in Slots : WF_vars(Slot(s))

Spec == Init /\ [][Next]_vars /\ Fairness

-----------------------------------------------------------------------------
(***************************************************************************)
(* Properties.                                                             *)
(***************************************************************************)
Frames == UNION {{stack[s][k] : k \in 1 .. Len(stack[s])} : s \in Slots}
TaskFrames == {f \in Frames : "task" \in DOMAIN f}
CallFrames == Frames \ TaskFrames

Offered == UNION {ToSet(deque[s]) : s \in Slots}
Unpushed == UNION {{<<f.call, i>> : i \in f.own + 1 .. Fanout(f.call)} :
                     f \in {g \in CallFrames : g.at = "push"}}
TasksAt(places) == {f.task : f \in {g \in TaskFrames : g.at \in places}}

(* A join returns when all its tasks are over, not while one of them is    *)
(* offered, about to be skipped or running on another slot, whose frame    *)
(* points into the caller's; each task runs at most once; only a call with *)
(* an exception or a stopped token passes a task over; and a call rethrows *)
(* exactly if one of its tasks has thrown, one of those exceptions         *)
(* (runForkJoinDrain's condition, runOneTaskImpl, rethrowIfCaptured).      *)
Scopes == INSTANCE TaskScope WITH
            Quiet <- None,
            todo <- Offered \union Unpushed \union TasksAt({"gate", "skipped"}),
            running <- TasksAt({"body", "threw", "flag", "retire"}),
            stoppable <- token
ImplementsTaskScope == Scopes!Spec

(* The two counts of a call, together, are the tasks that are not over,    *)
(* wherever they are, at every moment a drain may look at them             *)
(* (effective = pending - *ownPending).                                    *)
NotOver(c) == {t \in Tasks : /\ CallOf(t) = c
                             /\ \/ t \in Offered
                                \/ \E f \in TaskFrames : f.task = t /\ f.how # "tail"}
CountsAgree == \A f \in CallFrames :
                 f.at # "push" => Effective(f) = Cardinality(NotOver(f.call))

(* In a nested call the deque of the slot holds the call's own tasks on    *)
(* top: the thieves, who take from the front, have all older ones before.  *)
(* So the private count of a drain misses none of the tasks it pops.       *)
PopsItsOwn == \A s \in Slots :
                At(s, "pop") /\ Counts(TopCall(s)) /\ deque[s] # <<>>
                  => CallOf(Last(deque[s])) = TopCall(s)

(* Every call returns, also one that waits for a task which a thief has    *)
(* started on top of its own waiting, and whatever the others steal: what  *)
(* a join waits for is never below it on a stack that waits for the join.  *)
JoinsReturn == \A c \in Calls : c \in open ~> c \notin open
=============================================================================
