------------------------------- MODULE Region -------------------------------
(***************************************************************************)
(* What every synchronous primitive of the pool promises its caller: a     *)
(* parallel region.  One call at a time is open, each rank (the producer   *)
(* is rank 0) runs its share of that call exactly once and with that       *)
(* call's parameters, and the call returns only when every share has run.  *)
(*                                                                         *)
(* thread_pool.h states this promise piecewise (the join of                *)
(* dispatchOneStaticLockedBody, the claim of a rank, the reuse of cached   *)
(* parameters); module Dispatch implements it.                             *)
(***************************************************************************)
CONSTANTS Ranks,    (* the participants, slot 0 included *)
          Calls     (* the calls a producer can make     *)

VARIABLES region,   (* the calls that are open: none or one               *)
          todo,     (* the ranks whose share has not started              *)
          running   (* <<rank, parameters>> of the shares being executed  *)

vars == <<region, todo, running>>

Init == /\ region = {}
        /\ todo = {}
        /\ running = {}

Open(c) == /\ region = {}
           /\ region' = {c}
           /\ todo' = Ranks
           /\ UNCHANGED running

(* A share runs with the parameters of the open call, whoever runs it. *)
Start(r) == /\ r \in todo
            /\ todo' = todo \ {r}
            /\ \E c \in region : running' = running \union {<<r, c>>}
            /\ UNCHANGED region

Finish(r) == \E c \in region :
               /\ <<r, c>> \in running
               /\ running' = running \ {<<r, c>>}
               /\ UNCHANGED <<region, todo>>

Close == /\ region # {}
         /\ todo = {}
         /\ running = {}
         /\ region' = {}
         /\ UNCHANGED <<todo, running>>

Next == \/ \E c \in Calls : Open(c)
        \/ \E r \in Ranks : Start(r) \/ Finish(r)
        \/ Close

Spec == Init /\ [][Next]_vars
=============================================================================
