------------------------------ MODULE Topology ------------------------------
(***************************************************************************)
(* What the constructor of citor::ThreadPool makes of a machine: which     *)
(* CPUs the slots are pinned to, in which order, to which CCD each slot is *)
(* taken to belong, and the layout parallelScan derives from it.           *)
(*                                                                         *)
(* Sources: detail/topology.h (detectTopology, reserveProducerCpuFirst),   *)
(* thread_pool.h (initWorkers, reserveProducerCpuFirstCcdOnly,             *)
(* initScanScratch), pool_group.h (PoolGroup), detail/coherence_probe.h    *)
(* (clusterByLatency).                                                     *)
(*                                                                         *)
(* Pure functions: nothing here changes after construction.  A machine is  *)
(* what sysfs reports of it, a record of the core and the L3 cache of each *)
(* CPU, the size of each L3 cache and the affinity mask of the process.    *)
(* CPUs count from zero, as do CCDs and slots.                             *)
(***************************************************************************)
EXTENDS Integers, SequencesExt, FiniteSetsExt

NoCpu == -1

Cpus(m) == DOMAIN m.core

(* The members of a finite set, each behind those before it in the order.  *)
InOrder(S, Before(_, _)) ==
  [i \in 1 .. Cardinality(S) |->
     CHOOSE x \in S : Cardinality({y \in S : Before(y, x)}) = i - 1]
Ascending(S) == InOrder(S, <)

(* The CPUs of one core. *)
Siblings(m, c) == {d \in Cpus(m) : m.core[d] = m.core[c]}

(* One CPU for each core that has any in the mask, its lowest. *)
PhysicalCores(m) ==
  {c \in m.allowed : \A d \in Siblings(m, c) \cap m.allowed : c <= d}

(* The representative of a core is recorded as the sibling of its others,  *)
(* the first of them as its own, in the mask or not.                       *)
SmtSibling(m, c) ==
  LET seen   == Siblings(m, c) \cap PhysicalCores(m)
      others == Siblings(m, c) \ {c}
  IN  IF seen = {} \/ others = {} THEN NoCpu
      ELSE IF c \in seen THEN Min(others) ELSE Min(seen)

(* The representatives that share an L3 cache, by their lowest. *)
GroupOf(m, c) == {d \in PhysicalCores(m) : m.l3[d] = m.l3[c]}
CcdGroups(m) ==
  InOrder({GroupOf(m, c) : c \in PhysicalCores(m)},
          LAMBDA A, B : Min(A) < Min(B))

(* A CPU that represents no core keeps the zero the vector starts with. *)
CcdOf(m, c) ==
  IF c \in PhysicalCores(m)
  THEN (CHOOSE i \in DOMAIN CcdGroups(m) : c \in CcdGroups(m)[i]) - 1
  ELSE 0

L3Kib(m, g) == m.kib[m.l3[Min(CcdGroups(m)[g + 1])]]

(* The CCD whose cache is half as large again as the next, or else the     *)
(* largest that is not the one CPU 0 is on.                                *)
PreferredCcd(m) ==
  LET ccds == 0 .. Len(CcdGroups(m)) - 1
      Largest(S) == CHOOSE g \in S : \A h \in S :
                      \/ L3Kib(m, g) > L3Kib(m, h)
                      \/ L3Kib(m, g) = L3Kib(m, h) /\ g <= h
      first == Largest(ccds)
      rest  == ccds \ {first}
      other == ccds \ {CcdOf(m, 0)}
  IN  IF \/ rest = {} \/ other = {}
         \/ L3Kib(m, Largest(rest)) = 0
         \/ 2 * L3Kib(m, first) > 3 * L3Kib(m, Largest(rest))
      THEN first ELSE Largest(other)

(* Inside a CCD the cores with a sibling come first, each part from the    *)
(* highest CPU down.                                                       *)
PinOrder(m) ==
  LET Down(S) == Reverse(Ascending(S))
      Part(G) == Down({c \in G : SmtSibling(m, c) # NoCpu})
                   \o Down({c \in G : SmtSibling(m, c) = NoCpu})
  IN  FlattenSeq([i \in DOMAIN CcdGroups(m) |-> Part(CcdGroups(m)[i])])

(* The struct Topology that the constructor goes by. *)
Detected(m) ==
  [physicalCores   |-> PinOrder(m),
   ccdGroups       |-> CcdGroups(m),
   ccdOfCpu        |-> [c \in Cpus(m) |-> CcdOf(m, c)],
   smtSiblingOfCpu |-> [c \in Cpus(m) |-> SmtSibling(m, c)],
   preferredCcd    |-> PreferredCcd(m)]

-----------------------------------------------------------------------------
(* The pins. *)

(* The producer's CCD first: slot 0 is the caller's. *)
ProducerFirst(topo, pins) ==
  LET Near(c) == topo.ccdOfCpu[c] = topo.preferredCcd
      Far(c)  == ~Near(c)
  IN  SelectSeq(pins, Near) \o SelectSeq(pins, Far)

(* Two participants: slot 1 goes to the sibling of slot 0's CPU. *)
PairUp(topo, pins) ==
  LET sib == topo.smtSiblingOfCpu[pins[1]]
      SwapWithSecond(k) == [pins EXCEPT ![2] = pins[k], ![k] = pins[2]]
  IN  CASE sib = NoCpu -> pins
        [] sib # NoCpu /\ sib \notin ToSet(pins) -> InsertAt(pins, 2, sib)
        [] OTHER -> SwapWithSecond(CHOOSE k \in DOMAIN pins : pins[k] = sib)

(* More participants than cores: the siblings follow, those taken to be on *)
(* the producer's CCD first.                                               *)
Overflow(topo, pins) ==
  LET New(sib)  == sib # NoCpu /\ sib \notin ToSet(pins)
      Near(sib) == New(sib) /\ topo.ccdOfCpu[sib] = topo.preferredCcd
      Far(sib)  == New(sib) /\ topo.ccdOfCpu[sib] # topo.preferredCcd
      siblings  == [i \in DOMAIN pins |-> topo.smtSiblingOfCpu[pins[i]]]
  IN  pins \o SelectSeq(siblings, Near) \o SelectSeq(siblings, Far)

(* A pool is asked for by its number of participants and an affinity, or   *)
(* made by a PoolGroup for one CCD.                                        *)
Standalone(want, smtPair) == [arena |-> NoCpu, want |-> want, smtPair |-> smtPair]
Arena(g) == [arena |-> g, want |-> 0, smtPair |-> FALSE]

ParticipantPins(topo, ask) ==
  LET pins == ProducerFirst(topo, topo.physicalCores)
  IN  CASE ask.arena # NoCpu -> Ascending(topo.ccdGroups[ask.arena + 1])
        [] ask.arena = NoCpu /\ (~ask.smtPair \/ Len(pins) = 1) -> pins
        [] ask.arena = NoCpu /\ ask.smtPair /\ Len(pins) > 1 ->
             IF ask.want = 2 THEN PairUp(topo, pins)
             ELSE IF ask.want > Len(pins) THEN Overflow(topo, pins)
             ELSE pins

(* The slots: WorkerState::cpuId and ccdId. *)
SlotCpus(topo, ask) ==
  LET pins == ParticipantPins(topo, ask)
      effective == IF ask.arena # NoCpu THEN Len(pins)
                   ELSE Min({ask.want, Len(pins)})
  IN  [s \in 0 .. effective - 1 |-> pins[s + 1]]

-----------------------------------------------------------------------------
(* The layout of parallelScan. *)

OnProducerCcd(ccd) == {s \in DOMAIN ccd : ccd[s] = ccd[0]}
AcrossCcds(ccd) == OnProducerCcd(ccd) # DOMAIN ccd

(* The sixteenths of the input that go to the producer's CCD, by how much  *)
(* dearer a line is from another CCD (bias, 2 without a probe).            *)
AsymmetricNum(ccd, bias) ==
  LET near  == bias * Cardinality(OnProducerCcd(ccd))
      far   == Cardinality(DOMAIN ccd \ OnProducerCcd(ccd))
      share == (16 * near) \div (near + far)
  IN  Max({9, Min({15, share})})

(* The clusters the latency probe finds: without a clear split, or with    *)
(* fewer than ten pairs of CPUs to tell, the CCDs, each CPU that is in     *)
(* none by itself; with a clear one, the caches, by first appearance.      *)
PriorCluster(topo, cpu) ==
  LET groups == topo.ccdGroups
      Known(s) == \E i \in DOMAIN groups : cpu[s] \in groups[i]
      Orphans(s) == {t \in DOMAIN cpu : t < s /\ ~Known(t)}
  IN  [s \in DOMAIN cpu |-> IF Known(s) THEN topo.ccdOfCpu[cpu[s]]
                            ELSE Len(groups) + Cardinality(Orphans(s))]
LatencyCluster(m, cpu) ==
  LET First(s) == Min({t \in DOMAIN cpu : m.l3[cpu[t]] = m.l3[cpu[s]]})
  IN  [s \in DOMAIN cpu |->
         Cardinality({First(t) : t \in 0 .. s - 1} \cap 0 .. First(s) - 1)]
MinOtsuPairs == 10
Clusterings(m, topo, cpu) ==
  LET n == Cardinality(DOMAIN cpu)
  IN  {PriorCluster(topo, cpu)}
        \union (IF n * (n - 1) >= 2 * MinOtsuPairs
                THEN {LatencyCluster(m, cpu)} ELSE {})

(* Reducing cluster by cluster needs clusters that are contiguous in the   *)
(* slots, the producer in the first, and slots on several CCDs.            *)
SlotsOf(cluster, k) == {s \in DOMAIN cluster : cluster[s] = k}
Contiguous(S) == S = {} \/ S = Min(S) .. Max(S)
Hierarchical(ccd, cluster) ==
  /\ Cardinality(DOMAIN ccd) >= 4 /\ AcrossCcds(ccd)
  /\ cluster[0] = 0 /\ \E s \in DOMAIN cluster : cluster[s] # 0
  /\ \A s \in DOMAIN cluster : Contiguous(SlotsOf(cluster, cluster[s]))

(* The order in which partials are folded into prefixes. *)
FoldOrder(ccd, cluster) ==
  IF Hierarchical(ccd, cluster)
  THEN InOrder(DOMAIN cluster,
               LAMBDA s, t : \/ cluster[s] < cluster[t]
                             \/ cluster[s] = cluster[t] /\ s < t)
  ELSE Ascending(DOMAIN ccd)
=============================================================================
