--------------------------- MODULE CoherenceProbe ---------------------------
(***************************************************************************)
(* The coherence probe of the constructor: rounds in which disjoint pairs  *)
(* of CPUs pass a cache line to and fro, two threads for every pair, until *)
(* each pair has been measured; or the matrix of an earlier pool.          *)
(*                                                                         *)
(* Source: detail/coherence_probe.h.  What is made of the matrix is in     *)
(* module Topology; how long a round trip takes is left out.               *)
(***************************************************************************)
EXTENDS Integers, Sequences, FiniteSets

CONSTANTS Cpus,    (* how many CPUs there are to measure                     *)
          Trips    (* round trips of a pair: roundTrips, and the warm-up     *)

ProbeAssumption == Cpus \in Nat /\ Trips \in Nat \ {0}

ASSUME ProbeAssumption

VARIABLES
  round,   (* the rounds that are over                                     *)
  ping,    (* the pairs of the current round, and where their threads are  *)
  matrix   (* the pairs that are measured                                  *)

probeVars == <<round, ping, matrix>>

-----------------------------------------------------------------------------
(* roundRobinPairs: the first stays, the others go round; an odd one out   *)
(* is paired with a bye.                                                   *)
Even == IF Cpus % 2 = 0 THEN Cpus ELSE Cpus + 1
Rounds == IF Cpus < 2 THEN 0 ELSE Even - 1

Rotated(a) == <<a[1], a[Even]>> \o SubSeq(a, 2, Even - 1)

Arrangement[r \in 0 .. Rounds] ==
  IF r = 0 THEN [k \in 1 .. Even |-> k] ELSE Rotated(Arrangement[r - 1])

Pairs(r) == {p \in {{Arrangement[r][k], Arrangement[r][Even + 1 - k]} : k \in 1 .. Even \div 2} :
               p \subseteq 1 .. Cpus}
EveryPair == {p \in SUBSET (1 .. Cpus) : Cardinality(p) = 2}

-----------------------------------------------------------------------------
(* pingPongLatencyNs: the thread of a pair and its helper.  The line holds *)
(* a number; whose turn it is shows in whether that is odd.                *)
Fresh == [caller |-> "spawn", helper |-> "none", odd |-> FALSE, stop |-> FALSE, left |-> Trips]
NoRound == [p \in {} |-> Fresh]

ProbeInit == round = 0 /\ ping = NoRound /\ matrix = {}

OpenRound ==
  /\ ping = NoRound /\ round < Rounds
  /\ ping' = [p \in Pairs(round) |-> Fresh]
  /\ UNCHANGED <<round, matrix>>

CallerAt(p, here) == p \in DOMAIN ping /\ ping[p].caller = here
HelperAt(p, here) == p \in DOMAIN ping /\ ping[p].helper = here
Becomes(p, r) == ping' = [ping EXCEPT ![p] = r] /\ UNCHANGED <<round, matrix>>

SpawnHelper(p) ==
  /\ CallerAt(p, "spawn")
  /\ Becomes(p, [ping[p] EXCEPT !.caller = "ready", !.helper = "pin"])

HelperReady(p) == HelperAt(p, "pin") /\ Becomes(p, [ping[p] EXCEPT !.helper = "stop?"])

SeesReady(p) ==
  /\ CallerAt(p, "ready") /\ ~HelperAt(p, "pin")
  /\ Becomes(p, [ping[p] EXCEPT !.caller = "flip"])

Flip(p) ==
  /\ CallerAt(p, "flip")
  /\ Becomes(p, [ping[p] EXCEPT !.caller = "wait", !.odd = ~@])

SeesEven(p) ==
  /\ CallerAt(p, "wait") /\ ~ping[p].odd
  /\ Becomes(p, [ping[p] EXCEPT !.left = @ - 1,
                                !.caller = IF ping[p].left = 1 THEN "stop" ELSE "flip"])

(* The helper spins on the line: one last flip gets it round once more. *)
RaiseStop(p) ==
  /\ CallerAt(p, "stop")
  /\ Becomes(p, [ping[p] EXCEPT !.stop = TRUE, !.caller = "last"])

LastFlip(p) ==
  /\ CallerAt(p, "last")
  /\ Becomes(p, [ping[p] EXCEPT !.odd = ~@, !.caller = "join"])

JoinHelper(p) ==
  /\ CallerAt(p, "join") /\ HelperAt(p, "gone")
  /\ Becomes(p, [ping[p] EXCEPT !.caller = "over"])

HelperLooks(p) ==
  /\ HelperAt(p, "stop?")
  /\ Becomes(p, [ping[p] EXCEPT !.helper = IF ping[p].stop THEN "gone" ELSE "load"])

HelperLoads(p) ==
  /\ HelperAt(p, "load")
  /\ Becomes(p, [ping[p] EXCEPT !.helper = IF ping[p].odd THEN "answer" ELSE "stop?"])

HelperAnswers(p) ==
  /\ HelperAt(p, "answer")
  /\ Becomes(p, [ping[p] EXCEPT !.odd = FALSE, !.helper = "stop?"])

(* The threads of all pairs are joined. *)
CloseRound ==
  /\ ping # NoRound
  /\ \A p \in DOMAIN ping : CallerAt(p, "over")
  /\ matrix' = matrix \union DOMAIN ping
  /\ round' = round + 1
  /\ ping' = NoRound

(* cachedCoherenceProbe: the matrix another pool of these CPUs has left. *)
FromCache ==
  /\ round = 0 /\ ping = NoRound
  /\ matrix' = EveryPair /\ round' = Rounds
  /\ UNCHANGED ping

PairThread(p) == \/ SpawnHelper(p) \/ SeesReady(p) \/ Flip(p) \/ SeesEven(p)
                 \/ RaiseStop(p) \/ LastFlip(p) \/ JoinHelper(p)
HelperThread(p) == HelperReady(p) \/ HelperLooks(p) \/ HelperLoads(p) \/ HelperAnswers(p)
Probe == OpenRound \/ CloseRound \/ FromCache
Probed == round = Rounds /\ ping = NoRound
=============================================================================
