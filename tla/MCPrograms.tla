----------------------------- MODULE MCPrograms -----------------------------
(***************************************************************************)
(* Dispatch under two programs, one or the other in a behaviour: calls     *)
(* that work by themselves and not together (README, section 4).           *)
(***************************************************************************)
EXTENDS MCDispatch

(***************************************************************************)
(* What the threads of a program call, here and on another pool.           *)
(*                                                                         *)
(* Rewriting: p1 collapses late workers and reuses on wide calls, so that  *)
(* its descriptor is written over and over; p2 reduces, also elsewhere.    *)
(* Overtaking: a collapse under the reuse bit is not drained, so that the  *)
(* next call overtakes the late worker; p2 publishes from its stack.       *)
(***************************************************************************)
Rewriting  == [here |-> (p1 :> {ForA, ForHot}) @@ (p2 :> {RedA}),
               elsewhere |-> (p1 :> {}) @@ (p2 :> {RedB})]
Overtaking == [here |-> (p1 :> {ForSame}) @@ (p2 :> {Reg}), elsewhere |-> Nowhere]
Programs == {Rewriting, Overtaking}

SomeCallsOf   == [p \in Producers |-> UNION {m.here[p] : m \in Programs}]
SomeElsewhere == [p \in Producers |-> UNION {m.elsewhere[p] : m \in Programs}]

VARIABLE program   (* the one that runs *)

InProgram(A) == A /\ UNCHANGED program

ProgramInit == Init /\ program \in Programs
ProgramNext ==
  \/ \E p \in Producers : \/ \E c \in program.here[p] : InProgram(Begin(p, c))
                          \/ \E c \in program.elsewhere[p] : InProgram(ElsewhereBegin(p, c))
                          \/ InProgram(InCall(p))
  \/ \E w \in Workers : InProgram(Worker(w))
  \/ InProgram(Shutdown \/ Destroy \/ Destroyed)
ProgramSpec == ProgramInit /\ [][ProgramNext]_<<vars, program>> /\ Fairness
=============================================================================
