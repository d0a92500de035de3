----------------------------- MODULE MCDispatch -----------------------------
(***************************************************************************)
(* Instances of Dispatch.                                                  *)
(***************************************************************************)
EXTENDS Dispatch, TLC

CONSTANTS p1, p2

CallType(k, w, r, n) == [kind |-> k, wide |-> w, reusable |-> r, key |-> n]

ForA    == CallType("for", FALSE, FALSE, 1)
ForHot  == CallType("for", TRUE, TRUE, 3)
ForSame == CallType("for", FALSE, TRUE, 4)
RedA    == CallType("reduce", FALSE, TRUE, 6)
RedB    == CallType("reduce", FALSE, TRUE, 7)
Reg     == CallType("region", FALSE, FALSE, 8)

TwoWorkers == {1, 2}
OneWorker  == {1}
TwoProducers == {p1, p2}
OneProducer  == {p1}
AllCalls == {ForA, ForHot, ForSame, RedA, RedB, Reg}
AnyLatency == BOOLEAN
Throughput == {FALSE}
Nowhere == [p \in Producers |-> {}]

(* One call site, two pools. *)
ReduceCallsOf == p1 :> {RedA, RedB}

(* Two threads call parallelFor (README, section 4).                       *)
ForCallsOf == [p \in Producers |-> {ForA}]
=============================================================================
