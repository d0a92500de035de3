------------------------------ MODULE TaskDeque ------------------------------
(***************************************************************************)
(* What a work-stealing deque promises: a line of tasks.  The owner puts   *)
(* tasks in at the back and takes them from there, thieves take them from  *)
(* the front, and nobody ever takes a task that somebody else has taken.   *)
(* Module ChaseLev implements it (detail/chase_lev_deque.h); the fork-join *)
(* of module ForkJoin is built on it.                                      *)
(***************************************************************************)
EXTENDS Integers, Sequences

CONSTANT Tasks

VARIABLES content,  (* the tasks in the deque, front first      *)
          out       (* how often each task has been taken out    *)

vars == <<content, out>>

Init == /\ content = <<>>
        /\ out = [t \in Tasks |-> 0]

TakeOut(t) == out' = [out EXCEPT ![t] = @ + 1]

Push(t) == content' = Append(content, t) /\ UNCHANGED out

Pop == /\ content # <<>>
       /\ content' = SubSeq(content, 1, Len(content) - 1)
       /\ TakeOut(content[Len(content)])

Steal == /\ content # <<>>
         /\ content' = Tail(content)
         /\ TakeOut(Head(content))

Next == Pop \/ Steal \/ \E t \in Tasks : Push(t)

Spec == Init /\ [][Next]_vars
=============================================================================
