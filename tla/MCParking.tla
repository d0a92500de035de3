------------------------------ MODULE MCParking ------------------------------
(***************************************************************************)
(* Instances of Parking.                                                   *)
(***************************************************************************)
EXTENDS Parking, TLC

CONSTANTS t1, t2

OneThread == {t1}
TwoThreads == {t1, t2}

(* The owner of the scopes leaves workers behind, the other one waits for  *)
(* all of them.                                                            *)
ForRed == (t1 :> {"for"}) @@ (t2 :> {"reduce"})

(* README, section 4: the producer that is late with its wake, and a       *)
(* second thread that forks while the first has a scope open.              *)
OneMix == t1 :> {"for", "reduce"}
ForkMix == (t1 :> {}) @@ (t2 :> {"lease"})
=============================================================================
