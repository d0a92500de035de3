---------------------------- MODULE StagedRegion ----------------------------
(***************************************************************************)
(* What a call in several stages promises (parallelChain, runPlex,         *)
(* parallelScan): a call has units of work; a unit runs at most once,      *)
(* begins only when all units it builds on are completed, and the call     *)
(* returns when nothing runs any more and either every unit is completed,  *)
(* or one of them has thrown, or the token is stopped.  It rethrows        *)
(* exactly if one of its units has thrown.                                 *)
(*                                                                         *)
(* The calls of the library (modules Chain, Plex, Scan and Lookback) are   *)
(* shown to implement it in module Primitives.                             *)
(***************************************************************************)
CONSTANTS Calls, NoCall, Quiet,   (* Quiet: no exception                   *)
          Units(_),               (* the units of a call                   *)
          Needs(_, _),            (* those that a unit builds on           *)
          After(_, _)             (* those that must be over, also thrown  *)

VARIABLES call, began, ended, failed, stopped, outcome

vars == <<call, began, ended, failed, stopped, outcome>>

Init == /\ call = NoCall
        /\ began = {} /\ ended = {} /\ failed = {}
        /\ stopped = FALSE
        /\ outcome = Quiet

Open == /\ call = NoCall
        /\ call' \in Calls
        /\ UNCHANGED <<began, ended, failed, stopped, outcome>>

Stop == /\ call # NoCall
        /\ stopped' = TRUE
        /\ UNCHANGED <<call, began, ended, failed, outcome>>

Begin == /\ call # NoCall
         /\ \E u \in Units(call) \ began :
              /\ Needs(call, u) \subseteq ended
              /\ After(call, u) \subseteq ended \union failed
              /\ began' = began \union {u}
         /\ UNCHANGED <<call, ended, failed, stopped, outcome>>

Running == began \ (ended \union failed)

End == /\ \E u \in Running : ended' = ended \union {u}
       /\ UNCHANGED <<call, began, failed, stopped, outcome>>

Fail == /\ \E u \in Running : failed' = failed \union {u}
        /\ UNCHANGED <<call, began, ended, stopped, outcome>>

Return == /\ call # NoCall
          /\ Running = {}
          /\ ended = Units(call) \/ failed # {} \/ stopped
          /\ call' = NoCall
          /\ began' = {} /\ ended' = {} /\ failed' = {}
          /\ stopped' = FALSE
          /\ outcome' \in (IF failed = {} THEN {Quiet} ELSE failed)

Next == Open \/ Stop \/ Begin \/ End \/ Fail \/ Return

Spec == Init /\ [][Next]_vars
=============================================================================
