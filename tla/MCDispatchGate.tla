--------------------------- MODULE MCDispatchGate ---------------------------
(* Small instances of DispatchGate. *)
EXTENDS DispatchGate

Lat == "lat"
Thr == "thr"
Thr2 == "thr2"
Bck == "bck"

(* A thread in each lane, and a second one in the middle lane. *)
EachLane == [t \in {Lat, Thr, Thr2, Bck} |->
               CASE t = Lat           -> "latency"
                 [] t \in {Thr, Thr2} -> "throughput"
                 [] t = Bck           -> "background"]
=============================================================================
