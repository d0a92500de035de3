------------------------------ MODULE TaskScope ------------------------------
(***************************************************************************)
(* What a fork-join promises: a call opens a scope with a number of tasks, *)
(* each task runs at most once and while its scope is open, a task is      *)
(* passed over only if another one of its scope has thrown or the scope's  *)
(* token is stopped, and the scope is closed when all of its tasks are     *)
(* over, with an exception exactly if one of them has thrown.              *)
(*                                                                         *)
(* src/include/citor/thread_pool.h states it with forkJoin; module         *)
(* ForkJoin implements it.                                                 *)
(***************************************************************************)
CONSTANTS Calls, Tasks,      (* a task is a call and a position in it     *)
          Quiet              (* the outcome of a scope without exception   *)

VARIABLES open,      (* the scopes that are open                           *)
          todo,      (* their tasks that have not begun                    *)
          running,   (* the tasks between begin and end                    *)
          threw,     (* the tasks that have thrown                         *)
          outcome,   (* what the scope closed last told its caller         *)
          stoppable, (* the scopes that carry the token                    *)
          stopped    (* the token                                          *)

vars == <<open, todo, running, threw, outcome, stoppable, stopped>>

TasksOf(c) == {t \in Tasks : t[1] = c}

Init == /\ open = {} /\ todo = {} /\ running = {} /\ threw = {}
        /\ outcome = Quiet
        /\ stoppable = {}
        /\ stopped = FALSE

Open(c) == /\ c \notin open
           /\ open' = open \union {c}
           /\ todo' = todo \union TasksOf(c)
           /\ stoppable' \in {stoppable, stoppable \union {c}}
           /\ UNCHANGED <<running, threw, outcome, stopped>>

Start(t) == /\ t \in todo /\ t[1] \in open
            /\ todo' = todo \ {t}
            /\ running' = running \union {t}
            /\ UNCHANGED <<open, threw, outcome, stoppable, stopped>>

PassedOver(c) == \/ threw \intersect TasksOf(c) # {}
                 \/ stopped /\ c \in stoppable

Skip(t) == /\ t \in todo
           /\ PassedOver(t[1])
           /\ todo' = todo \ {t}
           /\ UNCHANGED <<open, running, threw, outcome, stoppable, stopped>>

Throw(t) == /\ t \in running
            /\ threw' = threw \union {t}
            /\ UNCHANGED <<open, todo, running, outcome, stoppable, stopped>>

Finish(t) == /\ t \in running
             /\ running' = running \ {t}
             /\ UNCHANGED <<open, todo, threw, outcome, stoppable, stopped>>

(* The exception of a scope is one of its tasks', and that of a nested     *)
(* call becomes its caller's, if there is one, in the same step.           *)
Close(c) == /\ c \in open
            /\ TasksOf(c) \intersect (todo \union running) = {}
            /\ open' = open \ {c}
            /\ stoppable' = stoppable \ {c}
            /\ LET thrown == threw \intersect TasksOf(c)
               IN  IF thrown = {}
                   THEN outcome' = Quiet /\ UNCHANGED threw
                   ELSE /\ outcome' \in thrown
                        /\ \/ threw' = threw \ thrown
                           \/ \E u \in running : threw' = (threw \ thrown) \union {u}
            /\ UNCHANGED <<todo, running, stopped>>

Stop == /\ stopped' = TRUE
        /\ UNCHANGED <<open, todo, running, threw, outcome, stoppable>>

Next == \/ Stop
        \/ \E c \in Calls : Open(c) \/ Close(c)
        \/ \E t \in Tasks : Start(t) \/ Skip(t) \/ Throw(t) \/ Finish(t)

Spec == Init /\ [][Next]_vars
=============================================================================
